---- MODULE Spec2Model ----
(***************************************************************************)
(* A model of the Quantum-crypto teaching toolkit: RSA basics              *)
(* (01_rsa_basics.py), classical factoring (02_classical_attack.py), the   *)
(* classical simulation of Shor's algorithm (03_shors_algorithm.py) and    *)
(* the Kyber-like KEM (07_advanced_post_quantum.py).                       *)
(*                                                                         *)
(* The components share no runtime state.  Each has one record variable    *)
(* and one specification; a specification leaves the other components'     *)
(* variables at their idle value.                                          *)
(***************************************************************************)
EXTENDS Integers, Naturals, Sequences, FiniteSets, TLC

VARIABLES mi, rsa, td, pr, pf, sh, ky, lw, sx, hv, cx, qk, vz, dm

vars == <<mi, rsa, td, pr, pf, sh, ky, lw, sx, hv, cx, qk, vz, dm>>

Idle == [pc |-> "idle"]

\* absent (None) factors
None == <<>>

(***************************************************************************)
(* Python integers are unbounded, TLC's are 32 bits wide.  The RSA         *)
(* quantities n, phi, d and the ciphertexts exceed 32 bits for keys of 16  *)
(* bits and more, so the RSA code is modelled over two-limb integers       *)
(* <<h, l>> that stand for h * Limb + l with 0 <= l < Limb and h any       *)
(* (possibly negative) integer.  The representation is unique, so equality *)
(* of integers is equality of pairs.                                       *)
(***************************************************************************)
Limb == 2^20

Int2(x) == <<x \div Limb, x % Limb>>

IntNorm(h, l) == <<h + (l \div Limb), l % Limb>>

IntAdd(a, b) == IntNorm(a[1] + b[1], a[2] + b[2])

IntSub(a, b) == IntNorm(a[1] - b[1], a[2] - b[2])

IntNeg(a) == IntNorm(-a[1], -a[2])

IntLt(a, b) == a[1] < b[1] \/ (a[1] = b[1] /\ a[2] < b[2])

IntLe(a, b) == a = b \/ IntLt(a, b)

IntZero == <<0, 0>>

IntOne == <<0, 1>>

\* the value of a two-limb integer below 2^31
IntValue(x) == x[1] * Limb + x[2]

IntAbs(a) == IF IntLt(a, IntZero) THEN IntNeg(a) ELSE a

\* TLC evaluates LET definitions and operator arguments on first use.
\* Strict(v, e) is e with v evaluated first, which keeps the nested
\* recursions of this module from piling up on the evaluator's stack.
Strict(v, e) == IF v = v THEN e ELSE e

Strict2(v, w, e) == Strict(v, Strict(w, e))

\* x * y for two limbs 0 <= x, y < Limb, by halves of ten bits
HalfLimb == 2^10

LimbMul(x, y) ==
    LET x1  == x \div HalfLimb
        x0  == x % HalfLimb
        y1  == y \div HalfLimb
        y0  == y % HalfLimb
        mid == x1 * y0 + x0 * y1
    IN  IntNorm(x1 * y1 + (mid \div HalfLimb), (mid % HalfLimb) * HalfLimb + x0 * y0)

\* a * b for a, b >= 0
IntMulNat(a, b) ==
    IntAdd(LimbMul(a[2], b[2]),
           <<a[1] * b[2] + a[2] * b[1] + (a[1] * b[1]) * Limb, 0>>)

IntMul(a, b) ==
    LET m == IntMulNat(IntAbs(a), IntAbs(b))
    IN  IF IntLt(a, IntZero) = IntLt(b, IntZero) THEN m ELSE IntNeg(m)

\* a * k for a >= 0 and a digit 0 <= k < Radix, and a // Radix
Radix == 2^9

IntMulDigit(a, k) == IntNorm(a[1] * k, a[2] * k)

IntLowDigit(a) == a[2] % Radix

IntShift(a) == <<a[1] \div Radix, (a[2] + (a[1] % Radix) * Limb) \div Radix>>

\* <<a // b, a % b>> for a >= 0 and b > 0, by shift and subtract
RECURSIVE IntDivModNat(_, _)
IntDivModNat(a, b) ==
    IF IntLt(a, b) THEN <<IntZero, a>>
    ELSE LET qr == IntDivModNat(a, IntAdd(b, b))
             q2 == IntAdd(qr[1], qr[1])
         IN  Strict(qr, IF IntLt(qr[2], b) THEN <<q2, qr[2]>>
                        ELSE <<IntAdd(q2, IntOne), IntSub(qr[2], b)>>)

\* Python's divmod(a, b) for b > 0: the quotient is rounded towards minus
\* infinity and the remainder lies in [0, b).
IntDivMod(a, b) ==
    Strict2(a, b,
      IF ~IntLt(a, IntZero) THEN IntDivModNat(a, b)
      ELSE LET qr == IntDivModNat(IntNeg(a), b)
           IN  Strict(qr, IF qr[2] = IntZero THEN <<IntNeg(qr[1]), IntZero>>
                          ELSE <<IntSub(IntNeg(qr[1]), IntOne), IntSub(b, qr[2])>>))

IntFloorDiv(a, b) == IntDivMod(a, b)[1]

IntMod(a, b) == IntDivMod(a, b)[2]

\* math.gcd on non-negative arguments (Euclid)
RECURSIVE IntGcd(_, _)
IntGcd(a, b) == Strict2(a, b, IF b = IntZero THEN a ELSE IntGcd(b, IntMod(a, b)))

\* (a * b) % m for 0 <= a, b < m, one digit of b at a time
RECURSIVE IntMulMod(_, _, _)
IntMulMod(a, b, m) ==
    IF b = IntZero THEN IntZero
    ELSE LET t == IntMulMod(a, IntShift(b), m)
         IN  Strict(t, IntMod(IntAdd(IntMulDigit(t, Radix),
                                     IntMulDigit(a, IntLowDigit(b))), m))

\* Python's three-argument pow(base, exp, m) for exp >= 0, m >= 1: square and
\* multiply, three bits of exp at a time from the top down
IntSquareMod(h, m) == Strict(h, IntMulMod(h, h, m))

IntStepMod(h, bit, b, m) ==
    LET s == IntSquareMod(h, m)
    IN  Strict(s, IF bit = 1 THEN IntMulMod(s, b, m) ELSE s)

RECURSIVE IntPowBits(_, _, _)
IntPowBits(b, exp, m) ==
    IF exp = IntZero THEN IntMod(IntOne, m)
    ELSE LET h  == IntPowBits(b, <<exp[1] \div 8, (exp[2] + (exp[1] % 8) * Limb) \div 8>>, m)
             lo == exp[2] % 8
             h1 == IntStepMod(h, lo \div 4, b, m)
             h2 == IntStepMod(h1, (lo \div 2) % 2, b, m)
         IN  Strict(h, Strict(h1, Strict(h2, IntStepMod(h2, lo % 2, b, m))))

\* The same for 0 <= a, b < m < Limb on TLC's own integers: (a * b) % m by
\* halves of b, and square and multiply one bit of exp at a time.  The
\* value of the shorter power is bound by a set so that it is computed once.
LimbMulMod(a, b, m) ==
    (((a * (b \div HalfLimb)) % m) * HalfLimb + a * (b % HalfLimb)) % m

RECURSIVE LimbPow(_, _, _)
LimbPow(b, exp, m) ==
    IF exp = 0 THEN 1 % m
    ELSE CHOOSE r \in {IF exp % 2 = 1 THEN LimbMulMod(s, b, m) ELSE s :
                          s \in {LimbMulMod(h, h, m) :
                                    h \in {LimbPow(b, exp \div 2, m)}}} : TRUE

IntPow(base, exp, m) ==
    IF base[1] = 0 /\ exp[1] = 0 /\ m[1] = 0
    THEN <<0, LimbPow(base[2] % m[2], exp[2], m[2])>>
    ELSE LET b == IntMod(base, m)
         IN  Strict2(b, exp, IntPowBits(b, exp, m))

(***************************************************************************)
(* 01_rsa_basics.py: mod_inverse                                           *)
(***************************************************************************)
\* the nested extended_gcd(a, b): <<gcd_val, x, y>>
\* extended_gcd for 0 <= a, b < Limb on TLC's own integers; the result of
\* the inner call is bound by a set so that it is computed once
RECURSIVE limb_extended_gcd(_, _)
limb_extended_gcd(a, b) ==
    IF a = 0 THEN <<b, 0, 1>>
    ELSE CHOOSE t \in {<<r[1], r[3] - (b \div a) * r[2], r[2]>> :
                          r \in {limb_extended_gcd(m, a) : m \in {b % a}}} : TRUE

RECURSIVE extended_gcd(_, _)
extended_gcd(a, b) ==
    Strict2(a, b,
      IF a = IntZero THEN <<b, IntZero, IntOne>>
      ELSE LET r  == extended_gcd(IntMod(b, a), a)
               x1 == r[2]
               y1 == r[3]
               x  == IntSub(y1, IntMul(IntFloorDiv(b, a), x1))
               y  == x1
           IN  Strict(r, <<r[1], x, y>>))

\* mod_inverse that returns x as extended_gcd leaves it (no normalisation)
mod_inverse_raw(e, phi) == extended_gcd(IntMod(e, phi), phi)[2]

mod_inverse(e, phi) ==
    IF e[1] = 0 /\ phi[1] = 0
    THEN <<0, ((limb_extended_gcd(e[2] % phi[2], phi[2])[2] % phi[2]) + phi[2])
                 % phi[2]>>
    ELSE LET x == extended_gcd(IntMod(e, phi), phi)[2]
         IN  Strict(x, IntMod(IntAdd(IntMod(x, phi), phi), phi))

(***************************************************************************)
(* Specification of mod_inverse as a pure function: the arguments are      *)
(* drawn from 1..MaxArg, one action applies the function.                  *)
(***************************************************************************)
MaxArg == 14

MiInit ==
    /\ mi \in [pc : {"call"}, e : 1..MaxArg, phi : 1..MaxArg, x : {IntZero}]
    /\ rsa = Idle /\ td = Idle /\ pr = Idle /\ pf = Idle /\ sh = Idle /\ ky = Idle
    /\ lw = Idle /\ sx = Idle /\ hv = Idle /\ cx = Idle /\ qk = Idle /\ vz = Idle /\ dm = Idle

MiCall ==
    /\ mi.pc = "call"
    /\ mi' = [mi EXCEPT !.pc = "done",
                        !.x = mod_inverse(Int2(mi.e), Int2(mi.phi))]
    /\ UNCHANGED <<rsa, td, pr, pf, sh, ky, lw, sx, hv, cx, qk, vz, dm>>

MiNext == MiCall

SpecModInverse == MiInit /\ [][MiNext]_vars

\* C3 (as stated): for all positive e and phi with gcd(e, phi) = 1,
\* x = mod_inverse(e, phi) lies in [0, phi) and (e * x) mod phi = 1.
C3_Original ==
    (mi.pc = "done" /\ IntGcd(Int2(mi.e), Int2(mi.phi)) = IntOne)
        => /\ IntLe(IntZero, mi.x) /\ IntLt(mi.x, Int2(mi.phi))
           /\ IntMod(IntMul(Int2(mi.e), mi.x), Int2(mi.phi)) = IntOne

\* C3 (amended): for all positive e and all phi >= 2 with gcd(e, phi) = 1,
\* x = mod_inverse(e, phi) lies in [0, phi) and (e * x) mod phi = 1; for
\* phi = 1 the result is 0, and (e * 0) mod 1 = 0.
C3_ModInverse ==
    (mi.pc = "done" /\ IntGcd(Int2(mi.e), Int2(mi.phi)) = IntOne)
        => /\ IntLe(IntZero, mi.x) /\ IntLt(mi.x, Int2(mi.phi))
           /\ IntMod(IntMul(Int2(mi.e), mi.x), Int2(mi.phi))
                = (IF mi.phi = 1 THEN IntZero ELSE IntOne)

\* an inverse that extended_gcd leaves negative: 3 * 5 = 1 (mod 7), x = -2
C3_Witness == mi.pc = "done" /\ mi.e = 3 /\ mi.phi = 7 /\ mi.x = Int2(5)

(***************************************************************************)
(* 01_rsa_basics.py: primes, key generation, encrypt, decrypt              *)
(***************************************************************************)
\* int(n ** 0.5) and int(math.sqrt(n)): the integer square root
isqrt(n) == CHOOSE s \in 0..n : s * s <= n /\ (s + 1) * (s + 1) > n

is_prime(n) ==
    IF n < 2 THEN FALSE
    ELSE IF n = 2 THEN TRUE
    ELSE IF n % 2 = 0 THEN FALSE
    ELSE \A i \in 3..isqrt(n) : (i % 2 = 1) => (n % i # 0)

\* the values random.randint(2^(bits-1), 2^bits - 1) can return.  Up to
\* MaxBits bits every value is drawn; for longer keys the draws are the
\* listed ones (primes, composites and even numbers of 6, 10 and 20 bits).
MaxBits == 4

SparseBits == {6, 10, 20}

SparseDraws == {53, 60, 63, 521, 1020, 1023, 524309, 917518, 1048572, 1048575}

randint_bits(bits) ==
    IF bits <= MaxBits THEN 2^(bits - 1) .. (2^bits - 1)
    ELSE {s \in SparseDraws : 2^(bits - 1) <= s /\ s <= 2^bits - 1}

\* one round of generate_prime's loop: the candidate made odd
odd_candidate(s) == IF s % 2 = 0 THEN s + 1 ELSE s

\* the values generate_prime(bits) can return
generate_prime(bits) ==
    {n \in {odd_candidate(s) : s \in randint_bits(bits)} : is_prime(n)}

FixedE == 65537

\* e = 3; while gcd(e, phi) != 1: e += 2
RECURSIVE scan_e(_, _)
scan_e(e, phi) == IF IntGcd(e, phi) # IntOne THEN scan_e(IntAdd(e, Int2(2)), phi) ELSE e

choose_e(phi) ==
    IF ~IntLt(Int2(FixedE), phi) THEN scan_e(Int2(3), phi) ELSE Int2(FixedE)

\* encrypt with the bound tested as message > n
encrypt_gt(message, e, n) ==
    IF IntLt(n, message) THEN [err |-> "ValueError", c |-> IntZero]
    ELSE [err |-> "none", c |-> IntPow(message, e, n)]

\* encrypt: the error raised, if any, and the ciphertext returned
encrypt(message, e, n) ==
    IF ~IntLt(message, n) THEN [err |-> "ValueError", c |-> IntZero]
    ELSE [err |-> "none", c |-> IntPow(message, e, n)]

decrypt(ciphertext, d, n) == IntPow(ciphertext, d, n)

\* the messages tried: every value up to MaxMsg, the values around n, and
\* the demo's values 42, 72 ("H"), 73 ("I") and 4000
MaxMsg == 36

Messages(n) ==
    {Int2(m) : m \in 0..MaxMsg} \cup {Int2(42), Int2(72), Int2(73), Int2(4000)}
        \cup {IntSub(n, IntOne), n, IntAdd(n, IntOne)}

RsaInit ==
    /\ rsa \in [pc : {"p"}, bits : (1..MaxBits) \cup SparseBits, p : {0}, q : {0},
                n : {IntZero}, phi : {IntZero}, e : {IntZero}, d : {IntZero},
                m : {IntZero}, c : {IntZero}, out : {IntZero}, err : {"none"}]
    /\ mi = Idle /\ td = Idle /\ pr = Idle /\ pf = Idle /\ sh = Idle /\ ky = Idle
    /\ lw = Idle /\ sx = Idle /\ hv = Idle /\ cx = Idle /\ qk = Idle /\ vz = Idle /\ dm = Idle

\* generate_rsa_keys, line 73: p = generate_prime(bits)
RsaPrimeP ==
    /\ rsa.pc = "p"
    /\ \E x \in generate_prime(rsa.bits) : rsa' = [rsa EXCEPT !.pc = "q", !.p = x]
    /\ UNCHANGED <<mi, td, pr, pf, sh, ky, lw, sx, hv, cx, qk, vz, dm>>

\* generate_rsa_keys, lines 74-106: q is drawn until it differs from p, then
\* n, phi, e and d follow
RsaKeys ==
    /\ rsa.pc = "q"
    /\ \E x \in generate_prime(rsa.bits) :
          /\ x # rsa.p
          /\ LET n   == IntMul(Int2(rsa.p), Int2(x))
                 phi == IntMul(Int2(rsa.p - 1), Int2(x - 1))
                 e   == choose_e(phi)
                 d   == mod_inverse(e, phi)
             IN  Strict2(n, phi, Strict2(e, d,
                   rsa' = [rsa EXCEPT !.pc = "keys", !.q = x, !.n = n,
                                      !.phi = phi, !.e = e, !.d = d]))
    /\ UNCHANGED <<mi, td, pr, pf, sh, ky, lw, sx, hv, cx, qk, vz, dm>>

RsaEncrypt ==
    /\ rsa.pc = "keys"
    /\ \E m \in Messages(rsa.n) :
          LET r == encrypt(m, rsa.e, rsa.n)
          IN  rsa' = [rsa EXCEPT !.pc = IF r.err = "none" THEN "encrypted" ELSE "raised",
                                 !.m = m, !.c = r.c, !.err = r.err]
    /\ UNCHANGED <<mi, td, pr, pf, sh, ky, lw, sx, hv, cx, qk, vz, dm>>

RsaDecrypt ==
    /\ rsa.pc = "encrypted"
    /\ rsa' = [rsa EXCEPT !.pc = "decrypted", !.out = decrypt(rsa.c, rsa.d, rsa.n)]
    /\ UNCHANGED <<mi, td, pr, pf, sh, ky, lw, sx, hv, cx, qk, vz, dm>>

RsaNext == RsaPrimeP \/ RsaKeys \/ RsaEncrypt \/ RsaDecrypt

SpecRSA == RsaInit /\ [][RsaNext]_vars

RsaHasKeys == rsa.pc \in {"keys", "encrypted", "raised", "decrypted"}


\* C1: for every key pair returned by generate_rsa_keys(bits) and every m
\* with 0 <= m < n, decrypt(encrypt(m, publicKey), privateKey) = m.
C1_RoundTrip == rsa.pc = "decrypted" => rsa.out = rsa.m

\* C2: every result of generate_rsa_keys satisfies n = p * q,
\* gcd(e, phi) = 1 and (d * e) mod phi = 1 with phi = (p - 1) * (q - 1).
C2_KeyInvariant ==
    RsaHasKeys =>
        LET phi == IntMul(Int2(rsa.p - 1), Int2(rsa.q - 1))
        IN  /\ rsa.n = IntMul(Int2(rsa.p), Int2(rsa.q))
            /\ IntGcd(rsa.e, phi) = IntOne
            /\ IntMulMod(IntMod(rsa.d, phi), IntMod(rsa.e, phi), phi) = IntOne

\* message^k mod n by k - 1 multiplications, and base^(2^k) mod n by k squarings
RECURSIVE NaivePow(_, _, _)
NaivePow(base, k, n) ==
    IF k = 0 THEN IntMod(IntOne, n)
    ELSE LET r == NaivePow(base, k - 1, n)
         IN  Strict(r, IntMulMod(r, IntMod(base, n), n))

RECURSIVE SquareTimes(_, _, _)
SquareTimes(base, k, n) ==
    IF k = 0 THEN IntMod(base, n)
    ELSE LET r == SquareTimes(base, k - 1, n)
         IN  Strict(r, IntMulMod(r, r, n))

\* message^e mod n for the exponents key generation produces: 65537 = 2^16 + 1,
\* or a small e from the scan
PowerModN(message, e, n) ==
    IF e = Int2(FixedE)
    THEN IntMulMod(SquareTimes(message, 16, n), IntMod(message, n), n)
    ELSE NaivePow(message, e[2], n)

\* C4: encrypt(message, (e, n)) raises ValueError and produces no ciphertext
\* for every message >= n; for 0 <= message < n it returns message^e mod n,
\* a value in [0, n).
C4_Encrypt ==
    /\ rsa.pc = "raised" =>
          /\ ~IntLt(rsa.m, rsa.n)
          /\ rsa.err = "ValueError"
          /\ rsa.c = IntZero
    /\ rsa.pc = "encrypted" =>
          /\ IntLt(rsa.m, rsa.n)
          /\ rsa.err = "none"
          /\ rsa.c = PowerModN(rsa.m, rsa.e, rsa.n)
          /\ IntLe(IntZero, rsa.c) /\ IntLt(rsa.c, rsa.n)

\* the spec's example: n = 3233 = 53 * 61 and message 4000
C4_Witness ==
    /\ rsa.pc = "raised" /\ rsa.n = Int2(3233) /\ rsa.m = Int2(4000)
    /\ rsa.err = "ValueError"

(***************************************************************************)
(* 02_classical_attack.py: trial_division.  The loop is modelled one        *)
(* iteration per step; the elapsed wall-clock time is not modelled.  n is   *)
(* a two-limb integer (the demo's largest input exceeds 32 bits), the       *)
(* candidate divisor i and the attempt count are small.                     *)
(***************************************************************************)
\* int(math.sqrt(n)) for a two-limb n
IntSqrt(n) == CHOOSE s \in 0..(2^16) :
                 /\ IntLe(IntMul(Int2(s), Int2(s)), n)
                 /\ IntLt(n, IntMul(Int2(s + 1), Int2(s + 1)))

\* a loop bound that stops one candidate early
td_bound_short(n) == IntSqrt(n) - 1

\* sqrt_n = int(math.sqrt(n)) + 1
td_bound(n) == IntSqrt(n) + 1

MaxTdN == 40

TdInputs == (1..MaxTdN) \cup {97, 143, 10403, 1018081}

TdInit ==
    /\ td \in [pc : {"start"}, n : {Int2(k) : k \in TdInputs}, i : {0}, sqrt_n : {0},
               attempts : {0}, p : {None}, q : {None}]
    /\ mi = Idle /\ rsa = Idle /\ pr = Idle /\ pf = Idle /\ sh = Idle /\ ky = Idle
    /\ lw = Idle /\ sx = Idle /\ hv = Idle /\ cx = Idle /\ qk = Idle /\ vz = Idle /\ dm = Idle

\* lines 36-47: the test for the factor 2, then the loop's initialisation
TdCall ==
    /\ td.pc = "start"
    /\ IF IntMod(td.n, Int2(2)) = IntZero
       THEN td' = [td EXCEPT !.pc = "done", !.attempts = 1, !.p = Int2(2),
                             !.q = IntFloorDiv(td.n, Int2(2))]
       ELSE td' = [td EXCEPT !.pc = "loop", !.attempts = 1, !.i = 3,
                             !.sqrt_n = td_bound(td.n)]
    /\ UNCHANGED <<mi, rsa, pr, pf, sh, ky, lw, sx, hv, cx, qk, vz, dm>>

\* lines 49-58: one iteration of while i <= sqrt_n
TdLoop ==
    /\ td.pc = "loop"
    /\ td.i <= td.sqrt_n
    /\ IF IntMod(td.n, Int2(td.i)) = IntZero
       THEN td' = [td EXCEPT !.pc = "done", !.attempts = @ + 1, !.p = Int2(td.i),
                             !.q = IntFloorDiv(td.n, Int2(td.i))]
       ELSE td' = [td EXCEPT !.attempts = @ + 1, !.i = @ + 2]
    /\ UNCHANGED <<mi, rsa, pr, pf, sh, ky, lw, sx, hv, cx, qk, vz, dm>>

\* lines 64-69: the loop ends without a factor
TdExit ==
    /\ td.pc = "loop"
    /\ td.i > td.sqrt_n
    /\ td' = [td EXCEPT !.pc = "done", !.p = None, !.q = None]
    /\ UNCHANGED <<mi, rsa, pr, pf, sh, ky, lw, sx, hv, cx, qk, vz, dm>>

TdNext == TdCall \/ TdLoop \/ TdExit

SpecTrialDivision == TdInit /\ [][TdNext]_vars

\* the value of a two-limb integer below Limb
Small(a) == a[2]

Divides(d, n) == n % d = 0

IsPrime(n) == n >= 2 /\ \A d \in 2..(n - 1) : ~Divides(d, n)

IsComposite(n) == n >= 4 /\ \E d \in 2..(n - 1) : d * d <= n /\ Divides(d, n)

LeastFactor(n) == CHOOSE d \in 2..n : Divides(d, n) /\ \A k \in 2..(d - 1) : ~Divides(k, n)

\* C5: for every composite n >= 4, trial_division(n) returns p the smallest
\* prime factor of n and q = n / p (so p * q = n, 1 < p <= q < n) with
\* attempts >= 1; trial_division(143) returns (11, 13).
C5_Composite ==
    (td.pc = "done" /\ IsComposite(Small(td.n))) =>
        /\ td.p # None /\ td.q # None
        /\ Small(td.p) = LeastFactor(Small(td.n))
        /\ IsPrime(Small(td.p))
        /\ Small(td.q) * Small(td.p) = Small(td.n)
        /\ 1 < Small(td.p) /\ Small(td.p) <= Small(td.q) /\ Small(td.q) < Small(td.n)
        /\ td.attempts >= 1
        /\ td.n = Int2(143) => (td.p = Int2(11) /\ td.q = Int2(13))

C5_Witness ==
    td.pc = "done" /\ td.n = Int2(143) /\ td.p = Int2(11) /\ td.q = Int2(13)
        /\ td.attempts = 6

\* C6: for every prime n (including n = 2), trial_division(n) returns absent
\* (None) for both factors.
C6_PrimeAbsent ==
    (td.pc = "done" /\ IsPrime(Small(td.n))) => (td.p = None /\ td.q = None)

(***************************************************************************)
(* 02_classical_attack.py: demo_classical_attack, the calls of             *)
(* trial_division on its four test cases                                   *)
(***************************************************************************)
\* lines 128-133: the numbers of test_cases; 2147483659 = 2048 * 2^20 + 11
test_cases == <<Int2(143), Int2(10403), Int2(1018081), <<2048, 11>>>>

\* int.bit_length() of a two-limb integer n >= 0
RECURSIVE bit_length_limb(_)
bit_length_limb(k) == IF k = 0 THEN 0 ELSE 1 + bit_length_limb(k \div 2)

bit_length(n) ==
    IF n[1] > 0 THEN bit_length_limb(n[1]) + bit_length_limb(Limb - 1)
    ELSE bit_length_limb(n[2])

\* line 137: for name, n in test_cases, at the call of line 144
TdDemoInit ==
    /\ td \in [pc : {"start"}, n : {test_cases[k] : k \in DOMAIN test_cases}, i : {0},
               sqrt_n : {0}, attempts : {0}, p : {None}, q : {None}]
    /\ mi = Idle /\ rsa = Idle /\ pr = Idle /\ pf = Idle /\ sh = Idle /\ ky = Idle
    /\ lw = Idle /\ sx = Idle /\ hv = Idle /\ cx = Idle /\ qk = Idle /\ vz = Idle /\ dm = Idle

SpecClassicalDemo == TdDemoInit /\ [][TdNext]_vars

\* the position of n in test_cases
CaseOf(n) == CHOOSE k \in DOMAIN test_cases : test_cases[k] = n

\* the bit lengths the test cases are said to have
SaidBits == <<8, 16, 24, 32>>

\* C24 (as stated): the four test cases of demo_classical_attack have bit
\* lengths 8, 16, 24 and 32 and are composite, so that trial_division
\* returns a factor pair (p, q with p * q = n) for each of them.
C24_TestCases ==
    /\ bit_length(td.n) = SaidBits[CaseOf(td.n)]
    /\ td.pc = "done" => (td.p # None /\ td.q # None /\ IntMul(td.p, td.q) = td.n)

\* What the code does: the bit lengths are 8, 14, 20 and 32; 143, 10403
\* and 1018081 are factored (11 * 13, 101 * 103, 1009 * 1009), and for
\* 2147483659 the loop runs through every odd candidate up to 46341 and
\* trial_division returns (absent, absent) after 23171 attempts.
C24_Actual ==
    /\ bit_length(td.n) = <<8, 14, 20, 32>>[CaseOf(td.n)]
    /\ td.pc = "done" =>
          IF td.n = test_cases[4]
          THEN td.p = None /\ td.q = None /\ td.attempts = 23171 /\ td.sqrt_n = 46341
          ELSE /\ td.p = <<Int2(11), Int2(101), Int2(1009)>>[CaseOf(td.n)]
               /\ td.q = <<Int2(13), Int2(103), Int2(1009)>>[CaseOf(td.n)]

\* trial_division(2147483659) has returned (absent, absent)
C24_PrimeCase ==
    td.pc = "done" /\ td.n = test_cases[4] /\ td.p = None /\ td.attempts = 23171

(***************************************************************************)
(* 02_classical_attack.py: pollard_rho.  n is small here, so the            *)
(* arithmetic is TLC's own.  One step per loop iteration.                   *)
(***************************************************************************)
\* math.gcd on non-negative arguments
RECURSIVE gcd(_, _)
gcd(a, b) == IF b = 0 THEN a ELSE gcd(b, a % b)

abs(a) == IF a < 0 THEN -a ELSE a

\* the early return that reports the loop counter instead of the literal 1
rho_even_counter(n, attempts) == [p |-> 2, q |-> n \div 2, attempts |-> attempts]

\* line 89: return 2, n // 2, time.time() - start_time, 1
rho_even(n, attempts) == [p |-> 2, q |-> n \div 2, attempts |-> 1]

\* the factor returned with the remainder in place of the quotient
rho_found_remainder(n, d, attempts) == [p |-> d, q |-> n % d, attempts |-> attempts]

\* line 111: return d, n // d, time_taken, attempts
rho_found(n, d, attempts) == [p |-> d, q |-> n \div d, attempts |-> attempts]

MaxRhoN == 15

RhoInputs == (0..MaxRhoN) \cup {10404}

PrInit ==
    /\ pr \in [pc : {"start"}, n : RhoInputs, x : {0}, y : {0}, c : {0}, d : {0},
               attempts : {0}, sampled : {FALSE},
               ret : {[p |-> None, q |-> None, attempts |-> 0]}]
    /\ mi = Idle /\ rsa = Idle /\ td = Idle /\ pf = Idle /\ sh = Idle /\ ky = Idle
    /\ lw = Idle /\ sx = Idle /\ hv = Idle /\ cx = Idle /\ qk = Idle /\ vz = Idle /\ dm = Idle

\* lines 85-89: attempts = 0, then the special case of an even n
PrCall ==
    /\ pr.pc = "start"
    /\ IF pr.n % 2 = 0
       THEN pr' = [pr EXCEPT !.pc = "done", !.ret = rho_even(pr.n, pr.attempts)]
       ELSE pr' = [pr EXCEPT !.pc = "sample"]
    /\ UNCHANGED <<mi, rsa, td, pf, sh, ky, lw, sx, hv, cx, qk, vz, dm>>

\* lines 91-94: x = random.randint(2, n - 1); y = x; c = random.randint(1, n - 1);
\* random.randint raises ValueError on an empty range
PrSample ==
    /\ pr.pc = "sample"
    /\ IF pr.n - 1 < 2
       THEN pr' = [pr EXCEPT !.pc = "raised"]
       ELSE \E x \in 2..(pr.n - 1), c \in 1..(pr.n - 1) :
               pr' = [pr EXCEPT !.pc = "loop", !.x = x, !.y = x, !.c = c, !.d = 1,
                                !.sampled = TRUE]
    /\ UNCHANGED <<mi, rsa, td, pf, sh, ky, lw, sx, hv, cx, qk, vz, dm>>

\* lines 96-104: one iteration of while d == 1
PrLoop ==
    /\ pr.pc = "loop"
    /\ LET n  == pr.n
           a  == pr.attempts + 1
           x  == (pr.x * pr.x + pr.c) % n
           y1 == (pr.y * pr.y + pr.c) % n
           y  == (y1 * y1 + pr.c) % n
           d  == gcd(abs(x - y), n)
       IN  pr' = [pr EXCEPT !.attempts = a, !.x = x, !.y = y, !.d = d,
                            !.pc = IF a > n \/ d # 1 THEN "after" ELSE "loop"]
    /\ UNCHANGED <<mi, rsa, td, pf, sh, ky, lw, sx, hv, cx, qk, vz, dm>>

\* lines 106-117: the factor found, or absent
PrReturn ==
    /\ pr.pc = "after"
    /\ IF pr.d # pr.n /\ pr.d # 1
       THEN pr' = [pr EXCEPT !.pc = "done", !.ret = rho_found(pr.n, pr.d, pr.attempts)]
       ELSE pr' = [pr EXCEPT !.pc = "done",
                             !.ret = [p |-> None, q |-> None, attempts |-> pr.attempts]]
    /\ UNCHANGED <<mi, rsa, td, pf, sh, ky, lw, sx, hv, cx, qk, vz, dm>>

PrNext == PrCall \/ PrSample \/ PrLoop \/ PrReturn

SpecPollardRho == PrInit /\ [][PrNext]_vars

\* C7: for every even n, pollard_rho(n) returns (2, n / 2) with attempt count
\* 1 immediately: no x, y or c has been sampled and the loop was not entered.
C7_EvenImmediate ==
    (pr.n % 2 = 0 /\ pr.pc # "start") =>
        /\ pr.pc = "done"
        /\ pr.ret = [p |-> 2, q |-> pr.n \div 2, attempts |-> 1]
        /\ ~pr.sampled
        /\ pr.attempts = 0 /\ pr.x = 0 /\ pr.y = 0 /\ pr.c = 0

\* the spec's example 10403 + 1 = 10404
C7_Witness == pr.pc = "done" /\ pr.n = 10404 /\ pr.ret.p = 2 /\ pr.ret.q = 5202

\* C22: for every odd n >= 3 and every draw of x and c, the loop counter
\* never exceeds n + 1; the loop is left with d a divisor of n, and with
\* d = 1 only when the safety limit was hit; pollard_rho returns (d, n // d)
\* with 1 < d < n and d * (n // d) = n when d is neither 1 nor n, and
\* (absent, absent) exactly when d = n or d = 1; the attempt count reported
\* is the loop counter.
C22_RhoSound ==
    (pr.n % 2 = 1 /\ pr.n >= 3) =>
        /\ pr.attempts <= pr.n + 1
        /\ pr.pc \in {"after", "done"} =>
              /\ pr.attempts >= 1
              /\ pr.d \in 1..pr.n /\ pr.n % pr.d = 0
              /\ pr.d = 1 => pr.attempts = pr.n + 1
        /\ pr.pc = "done" =>
              /\ pr.ret.attempts = pr.attempts
              /\ IF pr.d # 1 /\ pr.d # pr.n
                 THEN /\ pr.ret.p = pr.d
                      /\ 1 < pr.ret.p /\ pr.ret.p < pr.n
                      /\ pr.ret.q = pr.n \div pr.ret.p
                      /\ pr.ret.p * pr.ret.q = pr.n
                 ELSE pr.ret.p = None /\ pr.ret.q = None

\* 15 is factored in the second round of the loop
C22_Witness ==
    /\ pr.pc = "done" /\ pr.n = 15 /\ pr.d = 3 /\ pr.attempts = 2
    /\ pr.ret = [p |-> 3, q |-> 5, attempts |-> 2]

\* the loop ends with d = n and nothing is returned
C22_WitnessAbsent ==
    pr.pc = "done" /\ pr.n = 15 /\ pr.d = 15 /\ pr.attempts > 1 /\ pr.ret.p = None

(***************************************************************************)
(* 03_shors_algorithm.py: classical_period_finding                         *)
(***************************************************************************)
\* lines 109-115: the loop, from the state (r, current) after mults
\* multiplications; <<the value returned, the multiplications done>>
RECURSIVE period_loop(_, _, _, _, _)
period_loop(a, N, r, current, mults) ==
    IF current = 1 THEN <<r, mults>>
    ELSE IF r + 1 > N THEN <<-1, mults + 1>>
    ELSE period_loop(a, N, r + 1, (current * a) % N, mults + 1)

\* the loop started without reducing a modulo N
period_run_unreduced(a, N) == period_loop(a, N, 1, a, 0)

\* lines 106-121: r = 1; current = a % N; the loop
period_run(a, N) == period_loop(a, N, 1, a % N, 0)

\* a period finder that returns twice the order of a
classical_period_finding_double(a, N) ==
    IF period_run(a, N)[1] = -1 THEN -1 ELSE 2 * period_run(a, N)[1]

classical_period_finding(a, N) == period_run(a, N)[1]

MaxPeriodN == 16

MaxPeriodA == 20

PfInit ==
    /\ pf \in [pc : {"call"}, a : 0..MaxPeriodA, N : 1..MaxPeriodN, r : {0}, mults : {0}]
    /\ mi = Idle /\ rsa = Idle /\ td = Idle /\ pr = Idle /\ sh = Idle /\ ky = Idle
    /\ lw = Idle /\ sx = Idle /\ hv = Idle /\ cx = Idle /\ qk = Idle /\ vz = Idle /\ dm = Idle

PfCall ==
    /\ pf.pc = "call"
    /\ LET res == period_run(pf.a, pf.N)
       IN  pf' = [pf EXCEPT !.pc = "done", !.r = res[1], !.mults = res[2]]
    /\ UNCHANGED <<mi, rsa, td, pr, sh, ky, lw, sx, hv, cx, qk, vz, dm>>

PfNext == PfCall

SpecPeriod == PfInit /\ [][PfNext]_vars

\* a^k mod N by k multiplications
RECURSIVE PowerMod(_, _, _)
PowerMod(a, k, N) == IF k = 0 THEN 1 % N ELSE (PowerMod(a, k - 1, N) * (a % N)) % N

\* the exponents r in 1..N with a^r = 1 (mod N)
Periods(a, N) == {r \in 1..N : PowerMod(a, r, N) = 1}

\* C8: for every N >= 2 and a with gcd(a, N) = 1, classical_period_finding
\* returns the smallest r >= 1 with a^r mod N = 1 (4 for a = 7, N = 15); when
\* no such r <= N exists (gcd(a, N) > 1) it returns -1 after at most N
\* multiplications; the result is always -1 or in [1, N].
C8_Period ==
    (pf.pc = "done" /\ pf.N >= 2) =>
        /\ gcd(pf.a, pf.N) = 1 =>
              /\ pf.r \in Periods(pf.a, pf.N)
              /\ \A k \in Periods(pf.a, pf.N) : pf.r <= k
        /\ (gcd(pf.a, pf.N) > 1) <=> (Periods(pf.a, pf.N) = {})
        /\ Periods(pf.a, pf.N) = {} => (pf.r = -1 /\ pf.mults <= pf.N)
        /\ pf.r = -1 \/ pf.r \in 1..pf.N
        /\ (pf.a = 7 /\ pf.N = 15) => pf.r = 4

C8_Witness == pf.pc = "done" /\ pf.a = 7 /\ pf.N = 15 /\ pf.r = 4 /\ pf.mults = 3

\* the sentinel: a = 6 shares the factor 3 with N = 15
C8_WitnessSentinel == pf.pc = "done" /\ pf.a = 6 /\ pf.N = 15 /\ pf.r = -1 /\ pf.mults = 15

(***************************************************************************)
(* 03_shors_algorithm.py: classical_shors_simulation.  One step for the    *)
(* trivial checks, one step per attempt of the main loop.                  *)
(***************************************************************************)
\* int(log2(N)) for N >= 1
RECURSIVE floor_log2(_)
floor_log2(N) == IF N < 2 THEN 0 ELSE 1 + floor_log2(N \div 2)

\* int(round(N ** (1/b))): the integer a with a - 1/2 <= N^(1/b) < a + 1/2
round_root(N, b) ==
    CHOOSE a \in 1..N : (2 * a - 1)^b <= (2^b) * N /\ (2^b) * N < (2 * a + 1)^b

\* lines 143-148: the first b in range(2, int(log2(N)) + 1) with
\* round(N ** (1/b)) ** b == N, or 0 when there is none
perfect_power(N) ==
    LET hits == {b \in 2..floor_log2(N) : round_root(N, b)^b = N}
    IN  IF hits = {} THEN 0 ELSE CHOOSE b \in hits : \A c \in hits : b <= c

\* Python's pow(a, k, N) for small arguments
RECURSIVE pow3(_, _, _)
pow3(a, k, N) ==
    IF k = 0 THEN 1 % N
    ELSE LET h == pow3(a, k \div 2, N)
         IN  IF k % 2 = 1 THEN (((h * h) % N) * (a % N)) % N ELSE (h * h) % N

MaxAttempts == 10

\* the shortcut that returns the drawn a in place of the common divisor
shor_lucky_a(a, N, g) == [kind |-> "gcd", p |-> a, q |-> N \div a, r |-> 0, x |-> 0]

\* the shortcut that returns the common divisor and the drawn a
shor_lucky_pair(a, N, g) == [kind |-> "gcd", p |-> g, q |-> a, r |-> 0, x |-> 0]

\* lines 163-166: return g, N // g
shor_lucky(a, N, g) == [kind |-> "gcd", p |-> g, q |-> N \div g, r |-> 0, x |-> 0]

\* the attempt without the test of line 192 (x == N - 1)
shor_attempt_unchecked(a, N) ==
    LET g == gcd(a, N)
        r == classical_period_finding(a, N)
        x == pow3(a, r \div 2, N)
        factor1 == gcd(x - 1, N)
        factor2 == gcd(x + 1, N)
    IN  IF g > 1 THEN shor_lucky(a, N, g)
        ELSE IF r = -1 THEN [kind |-> "no_period", p |-> None, q |-> None, r |-> r, x |-> 0]
        ELSE IF r % 2 # 0 THEN [kind |-> "odd", p |-> None, q |-> None, r |-> r, x |-> 0]
        ELSE IF factor1 \notin {1, N}
             THEN [kind |-> "factor1", p |-> factor1, q |-> N \div factor1, r |-> r, x |-> x]
        ELSE IF factor2 \notin {1, N}
             THEN [kind |-> "factor2", p |-> factor2, q |-> N \div factor2, r |-> r, x |-> x]
        ELSE [kind |-> "trivial", p |-> None, q |-> None, r |-> r, x |-> x]

\* the attempt with g >= 1 in place of g > 1 at line 163
shor_attempt_ge(a, N) == shor_lucky(a, N, gcd(a, N))

\* lines 157-214: the body of one attempt with the random a drawn: how the
\* attempt ends (a return, or one of the retries) and what it returns
shor_attempt(a, N) ==
    LET g == gcd(a, N)
        r == classical_period_finding(a, N)
        x == pow3(a, r \div 2, N)
        factor1 == gcd(x - 1, N)
        factor2 == gcd(x + 1, N)
    IN  IF g > 1 THEN shor_lucky(a, N, g)
        ELSE IF r = -1 THEN [kind |-> "no_period", p |-> None, q |-> None, r |-> r, x |-> 0]
        ELSE IF r % 2 # 0 THEN [kind |-> "odd", p |-> None, q |-> None, r |-> r, x |-> 0]
        ELSE IF x = N - 1 THEN [kind |-> "minus_one", p |-> None, q |-> None, r |-> r, x |-> x]
        ELSE IF factor1 \notin {1, N}
             THEN [kind |-> "factor1", p |-> factor1, q |-> N \div factor1, r |-> r, x |-> x]
        ELSE IF factor2 \notin {1, N}
             THEN [kind |-> "factor2", p |-> factor2, q |-> N \div factor2, r |-> r, x |-> x]
        ELSE [kind |-> "trivial", p |-> None, q |-> None, r |-> r, x |-> x]

ReturnKinds == {"gcd", "factor1", "factor2"}

MaxShorN == 21

ShorInputs == 2..MaxShorN

\* attempt counts the attempts begun; a, r, x and kind are those of the
\* latest attempt
ShInit ==
    /\ sh \in [pc : {"start"}, N : ShorInputs, attempt : {0}, a : {0}, r : {0}, x : {0},
               kind : {"none"}, p : {None}, q : {None}]
    /\ mi = Idle /\ rsa = Idle /\ td = Idle /\ pr = Idle /\ pf = Idle /\ ky = Idle
    /\ lw = Idle /\ sx = Idle /\ hv = Idle /\ cx = Idle /\ qk = Idle /\ vz = Idle /\ dm = Idle

\* lines 136-148: N even, or N a perfect power
ShCall ==
    /\ sh.pc = "start"
    /\ IF sh.N % 2 = 0
       THEN sh' = [sh EXCEPT !.pc = "done", !.kind = "even", !.p = 2, !.q = sh.N \div 2]
       ELSE IF perfect_power(sh.N) # 0
       THEN LET a == round_root(sh.N, perfect_power(sh.N))
            IN  sh' = [sh EXCEPT !.pc = "done", !.kind = "power", !.p = a,
                                 !.q = sh.N \div a]
       ELSE sh' = [sh EXCEPT !.pc = "loop"]
    /\ UNCHANGED <<mi, rsa, td, pr, pf, ky, lw, sx, hv, cx, qk, vz, dm>>

\* lines 152-214: one iteration of for attempt in range(max_attempts), with
\* a = random.randint(2, N - 1)
ShAttempt ==
    /\ sh.pc = "loop"
    /\ sh.attempt < MaxAttempts
    /\ \E a \in 2..(sh.N - 1) :
          \E res \in {shor_attempt(a, sh.N)} :
              sh' = [sh EXCEPT !.pc = IF res.kind \in ReturnKinds THEN "done" ELSE "loop",
                               !.attempt = @ + 1, !.a = a, !.r = res.r, !.x = res.x,
                               !.kind = res.kind,
                               !.p = res.p, !.q = res.q]
    /\ UNCHANGED <<mi, rsa, td, pr, pf, ky, lw, sx, hv, cx, qk, vz, dm>>

\* lines 216-218: the attempts are used up
ShExhausted ==
    /\ sh.pc = "loop"
    /\ sh.attempt = MaxAttempts
    /\ sh' = [sh EXCEPT !.pc = "done", !.kind = "exhausted", !.p = None, !.q = None]
    /\ UNCHANGED <<mi, rsa, td, pr, pf, ky, lw, sx, hv, cx, qk, vz, dm>>

ShNext == ShCall \/ ShAttempt \/ ShExhausted

SpecShor == ShInit /\ [][ShNext]_vars

\* C9 (as stated): classical_shors_simulation(15) returns the unordered
\* factor pair {3, 5} for every sequence of random choices of a.
C9_Original == (sh.pc = "done" /\ sh.N = 15) => {sh.p, sh.q} = {3, 5}

\* C9 (amended): classical_shors_simulation(15) returns the unordered factor
\* pair {3, 5} for every sequence of random choices of a, except the one in
\* which all 10 attempts draw a = 14 (a^(r/2) = 14 = N - 1, the only draw
\* that is discarded), for which it returns (absent, absent).
C9_Shor15 ==
    /\ (sh.N = 15 /\ sh.pc = "loop" /\ sh.attempt > 0) =>
          (sh.a = 14 /\ sh.kind = "minus_one")
    /\ (sh.N = 15 /\ sh.pc = "done") =>
          \/ {sh.p, sh.q} = {3, 5} /\ sh.kind \in ReturnKinds
          \/ /\ sh.kind = "exhausted" /\ sh.attempt = MaxAttempts /\ sh.a = 14
             /\ sh.p = None /\ sh.q = None

\* a run that factors 15 through the period of a = 7 after a discarded a = 14
C9_Witness ==
    /\ sh.pc = "done" /\ sh.N = 15 /\ sh.attempt = 2 /\ sh.a = 7 /\ sh.r = 4
    /\ sh.x = 4 /\ sh.kind = "factor1" /\ sh.p = 3 /\ sh.q = 5

\* the branches of classical_shors_simulation that return a pair for odd N
SoundKinds == {"power"} \cup ReturnKinds

\* C20: for odd N >= 3, whatever the random choices, a result of
\* classical_shors_simulation other than (absent, absent) is a pair (p, q)
\* with p * q = N, 1 < p < N and 1 < q < N, whether it comes from the
\* perfect-power check, the gcd shortcut or the period; and no other branch
\* returns a pair.
C20_ShorSound ==
    (sh.N % 2 = 1 /\ sh.N >= 3) =>
        /\ (sh.pc = "done" /\ sh.kind # "exhausted") =>
              /\ sh.kind \in SoundKinds
              /\ sh.p * sh.q = sh.N
              /\ 1 < sh.p /\ sh.p < sh.N
              /\ 1 < sh.q /\ sh.q < sh.N
        /\ (sh.pc # "done" \/ sh.kind = "exhausted") => (sh.p = None /\ sh.q = None)

\* 21 is factored through the period of a = 2 (r = 6, x = 8) after a
\* discarded attempt
C20_Witness ==
    /\ sh.pc = "done" /\ sh.N = 21 /\ sh.attempt = 2 /\ sh.a = 2 /\ sh.r = 6
    /\ sh.x = 8 /\ sh.kind = "factor1" /\ sh.p = 7 /\ sh.q = 3

\* 9 = 3^2 is returned by the perfect-power check
C20_WitnessPower == sh.pc = "done" /\ sh.N = 9 /\ sh.kind = "power" /\ sh.p = 3 /\ sh.q = 3

\* 21 is returned by the gcd shortcut with a = 6
C20_WitnessGcd ==
    sh.pc = "done" /\ sh.N = 21 /\ sh.kind = "gcd" /\ sh.a = 6 /\ sh.p = 3 /\ sh.q = 7

\* The program runs on: a step that can be taken is taken.
SpecShorFair == ShInit /\ [][ShNext]_vars /\ WF_vars(ShNext)

\* odd N >= 3 that no perfect-power check returns
OddNoPower(N) == N % 2 = 1 /\ N >= 3 /\ perfect_power(N) = 0

\* C21: for odd N >= 3 that is not a perfect power, classical_shors_simulation
\* draws at most 10 values of a; an attempt that reaches period finding ends
\* after at most N steps of its loop; every attempt that does not return is
\* discarded because r is odd or a^(r/2) mod N = N - 1; (absent, absent) is
\* returned exactly when all 10 attempts were discarded; and every call
\* terminates.
C21_BoundedRetries ==
    /\ [](OddNoPower(sh.N) =>
            /\ sh.attempt <= MaxAttempts
            /\ (sh.attempt > 0 /\ gcd(sh.a, sh.N) = 1) =>
                   /\ period_run(sh.a, sh.N)[2] <= sh.N
                   /\ sh.r = period_run(sh.a, sh.N)[1]
            /\ (sh.pc = "loop" /\ sh.attempt > 0) =>
                   /\ sh.kind \in {"odd", "minus_one"}
                   /\ sh.kind = "odd" => sh.r % 2 = 1
                   /\ sh.kind = "minus_one" =>
                          (sh.r % 2 = 0 /\ pow3(sh.a, sh.r \div 2, sh.N) = sh.N - 1)
            /\ sh.pc = "done" =>
                   IF sh.kind = "exhausted"
                   THEN sh.attempt = MaxAttempts /\ sh.p = None /\ sh.q = None
                   ELSE sh.kind \in ReturnKinds /\ sh.p \in 2..(sh.N - 1))
    /\ <>(sh.pc = "done")

\* 21 is given up after ten attempts, the last with a = 20 (r = 2,
\* a^(r/2) = 20 = N - 1)
C21_Witness ==
    /\ sh.pc = "done" /\ sh.N = 21 /\ sh.kind = "exhausted"
    /\ sh.attempt = MaxAttempts /\ sh.a = 20 /\ sh.r = 2 /\ sh.x = 20

\* the latest attempt got as far as line 199: gcd(a, N) = 1, a period r was
\* found and is even, and a^(r/2) mod N is not N - 1
ReachedFactors ==
    /\ sh.attempt > 0 /\ sh.kind # "exhausted"
    /\ gcd(sh.a, sh.N) = 1
    /\ classical_period_finding(sh.a, sh.N) # -1
    /\ classical_period_finding(sh.a, sh.N) % 2 = 0
    /\ pow3(sh.a, classical_period_finding(sh.a, sh.N) \div 2, sh.N) # sh.N - 1

\* C27: an attempt of classical_shors_simulation that reaches the factor
\* computation has 1 < factor1 = gcd(x - 1, N) < N and returns through the
\* factor1 branch; the factor2 branch is never taken and no such attempt is
\* discarded.
C27_Factor1Suffices ==
    /\ sh.kind \notin {"factor2", "trivial"}
    /\ ReachedFactors =>
          /\ sh.pc = "done" /\ sh.kind = "factor1"
          /\ sh.p = gcd(sh.x - 1, sh.N) /\ 1 < sh.p /\ sh.p < sh.N
          /\ sh.q = sh.N \div sh.p

\* 21 with a = 13: r = 2, x = 13, factor1 = gcd(12, 21) = 3
C27_Witness ==
    /\ ReachedFactors
    /\ sh.pc = "done" /\ sh.N = 21 /\ sh.attempt = 1 /\ sh.a = 13 /\ sh.r = 2
    /\ sh.x = 13 /\ sh.kind = "factor1" /\ sh.p = 3 /\ sh.q = 7

is_odd_prime(N) == N >= 3 /\ \A d \in 2..(N - 1) : N % d # 0

\* C28: for every odd prime N, classical_shors_simulation(N) returns
\* (absent, absent) whatever the random choices: no attempt returns, and the
\* call ends when all 10 attempts are discarded.
C28_PrimesAbsent ==
    is_odd_prime(sh.N) =>
        /\ sh.kind \notin {"even", "power"} \cup ReturnKinds
        /\ sh.pc = "done" =>
              /\ sh.kind = "exhausted" /\ sh.attempt = MaxAttempts
              /\ sh.p = None /\ sh.q = None
        /\ (sh.pc = "loop" /\ sh.attempt > 0) =>
              /\ gcd(sh.a, sh.N) = 1
              /\ sh.kind \in {"odd", "minus_one"}

\* 19 is given up after ten attempts, the last with a = 2 (r = 18,
\* 2^9 mod 19 = 18 = N - 1)
C28_Witness ==
    /\ sh.pc = "done" /\ sh.N = 19 /\ sh.kind = "exhausted"
    /\ sh.attempt = MaxAttempts /\ sh.a = 2 /\ sh.r = 18 /\ sh.x = 18
    /\ sh.p = None /\ sh.q = None

\* 7 with a = 2: the period 3 is odd
C28_WitnessOdd ==
    /\ sh.pc = "loop" /\ sh.N = 7 /\ sh.attempt = 1 /\ sh.a = 2 /\ sh.r = 3
    /\ sh.kind = "odd"

(***************************************************************************)
(* 07_advanced_post_quantum.py: KyberDemo.  Arrays are functions over      *)
(* Python's indices 0..len-1; every operation on them is elementwise, as   *)
(* numpy's is.                                                             *)
(***************************************************************************)
KyberK == 2

KyberQ == 3329

\* the polynomial degree n of the instance (256 by default)
KyberN == 32

\* m = np.random.randint(0, 2, size=32), and range(32) in decapsulate
MsgLen == 32

Rows == 0..(KyberK - 1)

Cols == 0..(KyberN - 1)

min(a, b) == IF a < b THEN a ELSE b

\* The arrays np.random.randint(lo, hi, size=...) can return are represented
\* by MaxSeed + 1 of them: the array of lo everywhere, the array of hi - 1
\* everywhere, and arrays that mix the values of lo..hi-1 along the flat
\* index.
MaxSeed == 2

Seeds == 0..MaxSeed

randint(lo, hi, seed, flat) ==
    IF seed = 0 THEN lo
    ELSE IF seed = 1 THEN hi - 1
    ELSE lo + (((flat + seed) * (flat + 3) + (flat \div seed)) % (hi - lo))

randint_vector(lo, hi, seed, len) ==
    [c \in 0..(len - 1) |-> randint(lo, hi, seed, c)]

randint_matrix(lo, hi, seed) ==
    [i \in Rows |-> [c \in Cols |-> randint(lo, hi, seed, i * KyberN + c)]]

randint_cube(lo, hi, seed) ==
    [i \in Rows |-> [j \in Rows |-> [c \in Cols |->
        randint(lo, hi, seed, (i * KyberK + j) * KyberN + c)]]]

\* keygen, lines 197-199: t[i] after the terms j' < j, at coordinate c
RECURSIVE keygen_acc(_, _, _, _, _)
keygen_acc(A, s, i, j, c) ==
    IF j = 0 THEN 0
    ELSE (keygen_acc(A, s, i, j - 1, c) + A[i][j - 1][c] * s[j - 1][c]) % KyberQ

keygen_t(A, s, e) ==
    [i \in Rows |-> [c \in Cols |->
        (keygen_acc(A, s, i, KyberK, c) + e[i][c]) % KyberQ]]

\* encapsulate with A[i, j] in place of A[j, i]
RECURSIVE encaps_acc_untransposed(_, _, _, _, _)
encaps_acc_untransposed(A, r, i, j, c) ==
    IF j = 0 THEN 0
    ELSE (encaps_acc_untransposed(A, r, i, j - 1, c) + A[i][j - 1][c] * r[j - 1][c]) % KyberQ

\* encapsulate, lines 232-234: u[i] after the terms j' < j, at coordinate c
RECURSIVE encaps_acc(_, _, _, _, _)
encaps_acc(A, r, i, j, c) ==
    IF j = 0 THEN 0
    ELSE (encaps_acc(A, r, i, j - 1, c) + A[j - 1][i][c] * r[j - 1][c]) % KyberQ

encaps_u(A, r, e1) ==
    [i \in Rows |-> [c \in Cols |->
        (encaps_acc(A, r, i, KyberK, c) + e1[i][c]) % KyberQ]]

\* encapsulate, lines 237-239: v after the terms i' < i, at coordinate c
RECURSIVE encaps_v_acc(_, _, _, _)
encaps_v_acc(t, r, i, c) ==
    IF i = 0 THEN 0
    ELSE (encaps_v_acc(t, r, i - 1, c) + t[i - 1][c] * r[i - 1][c]) % KyberQ

\* encapsulate, lines 240-244: e2 added, then the message encoded
encaps_v(t, r, e2, m) ==
    [c \in Cols |->
        LET v == (encaps_v_acc(t, r, KyberK, c) + e2[c]) % KyberQ
        IN  IF c < min(MsgLen, KyberN) THEN (v + m[c] * (KyberQ \div 2)) % KyberQ
            ELSE v]

\* m.tobytes(): the bytes are fixed by the element type and the values
tobytes(dtype, a) == <<dtype, a>>

\* hashlib.sha256(...).digest(), as an injective function of the bytes
sha256(bytes) == <<"sha256", bytes>>

\* decapsulate, lines 269-271: result after the terms i' < i, at coordinate c
RECURSIVE decaps_acc(_, _, _, _, _)
decaps_acc(s, u, v, i, c) ==
    IF i = 0 THEN v[c]
    ELSE (decaps_acc(s, u, v, i - 1, c) - s[i - 1][c] * u[i - 1][c]) % KyberQ

decaps_result(s, u, v) == [c \in Cols |-> decaps_acc(s, u, v, KyberK, c)]

\* decapsulate, lines 274-277
decode(result) ==
    [c \in 0..(MsgLen - 1) |->
        IF result[c] > KyberQ \div 4 /\ result[c] < (3 * KyberQ) \div 4 THEN 1 ELSE 0]

decapsulate(s, u, v) == sha256(tobytes("int", decode(decaps_result(s, u, v))))

KyInit ==
    /\ ky = [pc |-> "keygen", A |-> None, t |-> None, s |-> None, u |-> None,
             v |-> None, m |-> None, secret |-> None, out |-> None]
    /\ mi = Idle /\ rsa = Idle /\ td = Idle /\ pr = Idle /\ pf = Idle /\ sh = Idle
    /\ lw = Idle /\ sx = Idle /\ hv = Idle /\ cx = Idle /\ qk = Idle /\ vz = Idle /\ dm = Idle

KyKeygen ==
    /\ ky.pc = "keygen"
    /\ \E ss \in Seeds, sa \in Seeds, se \in Seeds :
          LET s == randint_matrix(-2, 3, ss)
              A == randint_cube(0, KyberQ, sa)
              e == randint_matrix(-2, 3, se)
          IN  ky' = [ky EXCEPT !.pc = "keys", !.A = A, !.s = s,
                               !.t = keygen_t(A, s, e)]
    /\ UNCHANGED <<mi, rsa, td, pr, pf, sh, lw, sx, hv, cx, qk, vz, dm>>

KyEncapsulate ==
    /\ ky.pc = "keys"
    /\ \E sm \in Seeds, sr \in Seeds, s1 \in Seeds, s2 \in Seeds :
          LET m  == randint_vector(0, 2, sm, MsgLen)
              r  == randint_matrix(-1, 2, sr)
              e1 == randint_matrix(-1, 2, s1)
              e2 == randint_vector(-1, 2, s2, KyberN)
          IN  ky' = [ky EXCEPT !.pc = "encapsulated", !.m = m,
                               !.u = encaps_u(ky.A, r, e1),
                               !.v = encaps_v(ky.t, r, e2, m),
                               !.secret = sha256(tobytes("int", m))]
    /\ UNCHANGED <<mi, rsa, td, pr, pf, sh, lw, sx, hv, cx, qk, vz, dm>>

KyDecapsulate ==
    /\ ky.pc = "encapsulated"
    /\ ky' = [ky EXCEPT !.pc = "decapsulated", !.out = decapsulate(ky.s, ky.u, ky.v)]
    /\ UNCHANGED <<mi, rsa, td, pr, pf, sh, lw, sx, hv, cx, qk, vz, dm>>

KyNext == KyKeygen \/ KyEncapsulate \/ KyDecapsulate

SpecKyber == KyInit /\ [][KyNext]_vars

\* C10: with k = 2, q = 3329 and n >= 32, for every key pair returned by
\* keygen() and every (shared secret, ciphertext) returned by
\* encapsulate(pk), decapsulate(sk, ciphertext) equals the shared secret,
\* whatever is sampled for A, s, e, m, r, e1 and e2.
C10_KyberRoundTrip == ky.pc = "decapsulated" => ky.out = ky.secret

\* a round trip at the largest noise: a message bit 1 whose coordinate
\* decapsulate sees at q // 2 + 9, and a bit 0 seen at q - 9
C10_Witness ==
    /\ ky.pc = "decapsulated"
    /\ ky.out = ky.secret
    /\ \E c \in 0..(MsgLen - 1) :
          ky.m[c] = 1 /\ decaps_result(ky.s, ky.u, ky.v)[c] = KyberQ \div 2 + 9

C10_WitnessZero ==
    /\ ky.pc = "decapsulated"
    /\ ky.out = ky.secret
    /\ \E c \in 0..(MsgLen - 1) :
          ky.m[c] = 0 /\ decaps_result(ky.s, ky.u, ky.v)[c] = KyberQ - 9

(***************************************************************************)
(* 07_advanced_post_quantum.py: LWEDemo.  generate_keypair, then encrypt   *)
(* and decrypt for each bit of demo's test vector under the same key pair. *)
(***************************************************************************)
LweN == 16

LweQ == 251

\* benchmark_algorithms, line 477: lwe = LWEDemo(n=64, q=251)
BenchN == 64

\* demo, line 144: test_bits = [0, 1, 1, 0, 1]
test_bits == <<0, 1, 1, 0, 1>>

\* x @ y for two vectors: the sum of x[k] * y[k] over the indices below len
RECURSIVE dot(_, _, _)
dot(x, y, len) == IF len = 0 THEN 0 ELSE dot(x, y, len - 1) + x[len - 1] * y[len - 1]

\* column j of the n x n matrix A
column(A, j, n) == [i \in 0..(n - 1) |-> A[i][j]]

randint_square(lo, hi, seed, n) ==
    [i \in 0..(n - 1) |-> [j \in 0..(n - 1) |-> randint(lo, hi, seed, i * n + j)]]

\* generate_keypair, line 67: b = (A @ s + e) % q
lwe_b(A, s, e, n, q) == [i \in 0..(n - 1) |-> (dot(A[i], s, n) + e[i]) % q]

\* encrypt with A @ r in place of A.T @ r
lwe_u_untransposed(A, r, e1, n, q) ==
    [j \in 0..(n - 1) |-> (dot(A[j], r, n) + e1[j]) % q]

\* encrypt, line 96: u = (A.T @ r + e1) % q
lwe_u(A, r, e1, n, q) ==
    [j \in 0..(n - 1) |-> (dot(column(A, j, n), r, n) + e1[j]) % q]

\* encrypt, line 97: v = (b @ r + e2 + message_bit * (q // 2)) % q
lwe_v(b, r, e2, message_bit, n, q) ==
    (dot(b, r, n) + e2 + message_bit * (q \div 2)) % q

\* decrypt with v + s @ u in place of v - s @ u
lwe_result_plus(s, u, v, n, q) == (v + dot(s, u, n)) % q

\* decrypt, line 116: result = (v - s @ u) % q
lwe_result(s, u, v, n, q) == (v - dot(s, u, n)) % q

\* decrypt, lines 119-122
lwe_decode(result, q) ==
    IF result > q \div 4 /\ result < (3 * q) \div 4 THEN 1 ELSE 0

\* __init__, lines 40-41, with the defaults n = 16, q = 251
LwInit ==
    /\ lw = [pc |-> "keygen", n |-> LweN, q |-> LweQ, A |-> None, b |-> None, s |-> None, i |-> 0,
             bit |-> 0, u |-> None, v |-> 0, result |-> 0,
             decrypted_bits |-> <<>>, success |-> FALSE]
    /\ mi = Idle /\ rsa = Idle /\ td = Idle /\ pr = Idle /\ pf = Idle /\ sh = Idle
    /\ ky = Idle /\ sx = Idle /\ hv = Idle /\ cx = Idle /\ qk = Idle /\ vz = Idle
    /\ dm = Idle

\* demo, line 138: generate_keypair()
LwKeygen ==
    /\ lw.pc = "keygen"
    /\ \E ss \in Seeds, sa \in Seeds, se \in Seeds :
          LET s == randint_vector(-1, 2, ss, lw.n)
              A == randint_square(0, lw.q, sa, lw.n)
              e == randint_vector(-2, 3, se, lw.n)
          IN  lw' = [lw EXCEPT !.pc = "encrypt", !.A = A, !.s = s,
                               !.b = lwe_b(A, s, e, lw.n, lw.q)]
    /\ UNCHANGED <<mi, rsa, td, pr, pf, sh, ky, sx, hv, cx, qk, vz, dm>>

\* demo, lines 147-148: the next bit of test_bits is encrypted
LwEncrypt ==
    /\ lw.pc = "encrypt"
    /\ lw.i < Len(test_bits)
    /\ \E sr \in Seeds, s1 \in Seeds :
          LET bit == test_bits[lw.i + 1]
              r   == randint_vector(0, 2, sr, lw.n)
              e1  == randint_vector(-1, 2, s1, lw.n)
          IN  \E u \in {lwe_u(lw.A, r, e1, lw.n, lw.q)}, e2 \in -1..1 :
                 lw' = [lw EXCEPT !.pc = "decrypt", !.bit = bit, !.u = u,
                                  !.v = lwe_v(lw.b, r, e2, bit, lw.n, lw.q)]
    /\ UNCHANGED <<mi, rsa, td, pr, pf, sh, ky, sx, hv, cx, qk, vz, dm>>

\* demo, line 149: decrypted = self.decrypt(private_key, ciphertext)
LwDecrypt ==
    /\ lw.pc = "decrypt"
    /\ lw' = [lw EXCEPT !.pc = "append", !.result = lwe_result(lw.s, lw.u, lw.v, lw.n, lw.q)]
    /\ UNCHANGED <<mi, rsa, td, pr, pf, sh, ky, sx, hv, cx, qk, vz, dm>>

\* demo, line 150: decrypted_bits.append(decrypted); the locals of this
\* round are not read again
LwAppend ==
    /\ lw.pc = "append"
    /\ lw' = [lw EXCEPT !.pc = "encrypt", !.i = @ + 1, !.u = None, !.v = 0,
                        !.result = 0,
                        !.decrypted_bits = Append(@, lwe_decode(lw.result, lw.q))]
    /\ UNCHANGED <<mi, rsa, td, pr, pf, sh, ky, sx, hv, cx, qk, vz, dm>>

\* demo, lines 153-156: success = all(o == d ...)
LwFinish ==
    /\ lw.pc = "encrypt"
    /\ lw.i = Len(test_bits)
    /\ lw' = [lw EXCEPT !.pc = "done", !.success = (lw.decrypted_bits = test_bits)]
    /\ UNCHANGED <<mi, rsa, td, pr, pf, sh, ky, sx, hv, cx, qk, vz, dm>>

LwNext == LwKeygen \/ LwEncrypt \/ LwDecrypt \/ LwAppend \/ LwFinish

SpecLWE == LwInit /\ [][LwNext]_vars

\* C11: at n = 16, q = 251, for every key pair of generate_keypair() and
\* every bit of the test vector [0, 1, 1, 0, 1],
\* decrypt(privateKey, encrypt(publicKey, bit)) = bit.
C11_LweRoundTrip ==
    /\ lw.pc = "append" => lwe_decode(lw.result, LweQ) = lw.bit
    /\ lw.pc \in {"encrypt", "done"} =>
          lw.decrypted_bits = SubSeq(test_bits, 1, lw.i)
    /\ lw.pc = "done" => lw.success

\* a bit 1 decrypted at the largest noise, 16 * 2 + 1 + 16 = 49 above q // 2
C11_Witness ==
    /\ lw.pc = "append" /\ lw.i = 1 /\ lw.bit = 1
    /\ lw.result = LweQ \div 2 + 49
    /\ lwe_decode(lw.result, LweQ) = 1
    /\ lw.decrypted_bits = <<0>>

\* a bit 0 decrypted at the noise -49
C11_WitnessZero ==
    /\ lw.pc = "append" /\ lw.i = 0 /\ lw.bit = 0
    /\ lw.result = LweQ - 49
    /\ lwe_decode(lw.result, LweQ) = 0

(***************************************************************************)
(* benchmark_algorithms: the same demo on LWEDemo(n=64, q=251).             *)
(***************************************************************************)
LwBenchInit ==
    /\ lw = [pc |-> "keygen", n |-> BenchN, q |-> LweQ, A |-> None,
             b |-> None, s |-> None, i |-> 0,
             bit |-> 0, u |-> None, v |-> 0, result |-> 0,
             decrypted_bits |-> <<>>, success |-> FALSE]
    /\ mi = Idle /\ rsa = Idle /\ td = Idle /\ pr = Idle /\ pf = Idle /\ sh = Idle
    /\ ky = Idle /\ sx = Idle /\ hv = Idle /\ cx = Idle /\ qk = Idle /\ vz = Idle
    /\ dm = Idle

SpecLweBenchmark == LwBenchInit /\ [][LwNext]_vars

\* C26: under n = 64, q = 251 every draw of A, s, e, r, e1, e2 decrypts the
\* five test bits to their original values, and demo() returns success.
C26_BenchmarkSuccess ==
    /\ lw.pc = "append" => lwe_decode(lw.result, lw.q) = lw.bit
    /\ lw.pc = "done" => lw.success

\* what does hold: demo() returns success exactly when the five bits came
\* back, and a bit comes back wrong at the result 64 * 2 + 1 = 129 for bit 0
C26_SuccessIffBits ==
    lw.pc = "done" => (lw.success <=> lw.decrypted_bits = test_bits)

C26_Failure ==
    /\ lw.pc = "append" /\ lw.n = BenchN /\ lw.i = 0 /\ lw.bit = 0
    /\ lw.result = 129
    /\ lwe_decode(lw.result, lw.q) = 1

(***************************************************************************)
(* LWEDemo.generate_keypair, encrypt and decrypt as functions of the        *)
(* parameters n, q and of every draw of s, e, r, e1, e2 in its range.  The  *)
(* draws e, r, e1, e2 stay in the record next to the values computed from   *)
(* them.                                                                    *)
(***************************************************************************)
LweDims == {1, 2}

LweModuli == {17, LweQ}

\* np.random.randint(lo, hi, size=n): every vector over lo..hi-1
randint_all(lo, hi, n) == [0..(n - 1) -> lo..(hi - 1)]

\* e.r + e2 - s.e1
lwe_noise(e, r, e2, s, e1, n) == dot(e, r, n) + e2 - dot(s, e1, n)

NzInit ==
    /\ \E n \in LweDims, q \in LweModuli :
          lw = [pc |-> "keygen", n |-> n, q |-> q, A |-> None, b |-> None,
                s |-> None, e |-> None, r |-> None, e1 |-> None, e2 |-> 0,
                bit |-> 0, u |-> None, v |-> 0, result |-> 0, decrypted |-> 0]
    /\ mi = Idle /\ rsa = Idle /\ td = Idle /\ pr = Idle /\ pf = Idle /\ sh = Idle
    /\ ky = Idle /\ sx = Idle /\ hv = Idle /\ cx = Idle /\ qk = Idle /\ vz = Idle
    /\ dm = Idle

\* generate_keypair, lines 54-73
NzKeygen ==
    /\ lw.pc = "keygen"
    /\ \E s \in randint_all(-1, 2, lw.n), sa \in Seeds, e \in randint_all(-2, 3, lw.n) :
          LET A == randint_square(0, lw.q, sa, lw.n)
          IN  lw' = [lw EXCEPT !.pc = "encrypt", !.A = A, !.s = s, !.e = e,
                               !.b = lwe_b(A, s, e, lw.n, lw.q)]
    /\ UNCHANGED <<mi, rsa, td, pr, pf, sh, ky, sx, hv, cx, qk, vz, dm>>

\* encrypt, lines 86-99
NzEncrypt ==
    /\ lw.pc = "encrypt"
    /\ \E bit \in 0..1, r \in randint_all(0, 2, lw.n),
          e1 \in randint_all(-1, 2, lw.n), e2 \in -1..1 :
          lw' = [lw EXCEPT !.pc = "decrypt", !.bit = bit, !.r = r, !.e1 = e1,
                           !.e2 = e2,
                           !.u = lwe_u(lw.A, r, e1, lw.n, lw.q),
                           !.v = lwe_v(lw.b, r, e2, bit, lw.n, lw.q)]
    /\ UNCHANGED <<mi, rsa, td, pr, pf, sh, ky, sx, hv, cx, qk, vz, dm>>

\* decrypt, lines 112-122
NzDecrypt ==
    /\ lw.pc = "decrypt"
    /\ \E result \in {lwe_result(lw.s, lw.u, lw.v, lw.n, lw.q)} :
          lw' = [lw EXCEPT !.pc = "decrypted", !.result = result,
                           !.decrypted = lwe_decode(result, lw.q)]
    /\ UNCHANGED <<mi, rsa, td, pr, pf, sh, ky, sx, hv, cx, qk, vz, dm>>

NzNext == NzKeygen \/ NzEncrypt \/ NzDecrypt

SpecLweNoise == NzInit /\ [][NzNext]_vars

NzNoise == lwe_noise(lw.e, lw.r, lw.e2, lw.s, lw.e1, lw.n)

\* C25: for every n, q, key pair (A, b = (A.s + e) mod q, s) and ciphertext
\* (u, v) of encrypt with the draws r, e1, e2, decrypt computes
\* (v - s.u) mod q = (e.r + e2 - s.e1 + bit * (q // 2)) mod q, and it returns
\* the encrypted bit whenever |e.r + e2 - s.e1| < q // 4.
C25_NoiseBound ==
    lw.pc = "decrypted" =>
        /\ lw.result = (NzNoise + lw.bit * (lw.q \div 2)) % lw.q
        /\ abs(NzNoise) < lw.q \div 4 => lw.decrypted = lw.bit

\* n = 2, q = 17: the bit 1 under the noise -3 = (-2) * 1 + 0 - (-1) * (-1)
C25_Witness ==
    /\ lw.pc = "decrypted" /\ lw.n = 2 /\ lw.q = 17 /\ lw.bit = 1
    /\ dot(lw.e, lw.r, 2) = -2 /\ lw.e2 = 0 /\ dot(lw.s, lw.e1, 2) = 1
    /\ lw.result = 5 /\ lw.decrypted = 1

\* n = 2, q = 17: at the noise 4 = q // 4 the bit 0 is decrypted as 0 still,
\* at the noise 5 as 1
C25_WitnessEdge ==
    /\ lw.pc = "decrypted" /\ lw.n = 2 /\ lw.q = 17 /\ lw.bit = 0
    /\ NzNoise = 5 /\ lw.decrypted = 1

(***************************************************************************)
(* Byte strings: a byte string is the sequence of its byte values 0..255.  *)
(***************************************************************************)
DigestSize == 32

ByteValues == {0, 1}

\* the byte strings of length len over ByteValues
BytesOfLen(len) == [1..len -> ByteValues]

\* the byte strings of every length up to max
BytesUpTo(max) == UNION {BytesOfLen(len) : len \in 0..max}

\* b[::-1]
reversed(b) == [i \in 1..Len(b) |-> b[Len(b) + 1 - i]]

\* b''.join(parts)
RECURSIVE join(_)
join(parts) == IF parts = <<>> THEN <<>> ELSE Head(parts) \o join(Tail(parts))

(***************************************************************************)
(* hashlib.sha256: SHA-256 as FIPS 180-4 defines it.  A 32-bit word is     *)
(* carried as two halves of 16 bits, high half first; the eight working    *)
(* variables a .. h are a sequence of sixteen halves, the message schedule *)
(* one of 128.                                                             *)
(***************************************************************************)
Half == 2^16

\* the exclusive or of two numbers of k bits
RECURSIVE xor_bits(_, _, _)
xor_bits(a, b, k) ==
    IF k = 0 THEN 0
    ELSE ((a + b) % 2) + 2 * xor_bits(a \div 2, b \div 2, k - 1)

\* a ^ b for two numbers of 4 bits, at index 16 * a + b + 1
XorNibble == <<>> \o [k \in 1..256 |-> xor_bits((k - 1) \div 16, (k - 1) % 16, 4)]

\* a ^ b for two bytes, at index 256 * a + b + 1
XorTable ==
    <<>> \o [k \in 1..(2^16) |->
                 XorNibble[((k - 1) \div 4096) * 16 + ((k - 1) % 256) \div 16 + 1] * 16
                     + XorNibble[(((k - 1) \div 256) % 16) * 16 + ((k - 1) % 16) + 1]]

\* x ^ y and x & y for two halves
xor16(x, y) ==
    XorTable[(x \div 256) * 256 + y \div 256 + 1] * 256
        + XorTable[(x % 256) * 256 + (y % 256) + 1]

and16(x, y) == (x + y - xor16(x, y)) \div 2

\* the halves of ROTR^k(x) and SHR^k(x) for a word x = <<hi, lo>> and
\* 0 < k < 16; a rotation by 16 + k is that of <<lo, hi>> by k
rotr_hi(hi, lo, k) == hi \div 2^k + (lo % 2^k) * 2^(16 - k)

rotr_lo(hi, lo, k) == lo \div 2^k + (hi % 2^k) * 2^(16 - k)

shr_hi(hi, lo, k) == hi \div 2^k

\* Sigma0(x) = ROTR^2(x) ^ ROTR^13(x) ^ ROTR^22(x)
Sigma0_hi(hi, lo) ==
    xor16(xor16(rotr_hi(hi, lo, 2), rotr_hi(hi, lo, 13)), rotr_hi(lo, hi, 6))

Sigma0_lo(hi, lo) ==
    xor16(xor16(rotr_lo(hi, lo, 2), rotr_lo(hi, lo, 13)), rotr_lo(lo, hi, 6))

\* Sigma1(x) = ROTR^6(x) ^ ROTR^11(x) ^ ROTR^25(x)
Sigma1_hi(hi, lo) ==
    xor16(xor16(rotr_hi(hi, lo, 6), rotr_hi(hi, lo, 11)), rotr_hi(lo, hi, 9))

Sigma1_lo(hi, lo) ==
    xor16(xor16(rotr_lo(hi, lo, 6), rotr_lo(hi, lo, 11)), rotr_lo(lo, hi, 9))

\* sigma0(x) = ROTR^7(x) ^ ROTR^18(x) ^ SHR^3(x)
sigma0_hi(hi, lo) ==
    xor16(xor16(rotr_hi(hi, lo, 7), rotr_hi(lo, hi, 2)), shr_hi(hi, lo, 3))

sigma0_lo(hi, lo) ==
    xor16(xor16(rotr_lo(hi, lo, 7), rotr_lo(lo, hi, 2)), rotr_lo(hi, lo, 3))

\* sigma1(x) = ROTR^17(x) ^ ROTR^19(x) ^ SHR^10(x)
sigma1_hi(hi, lo) ==
    xor16(xor16(rotr_hi(lo, hi, 1), rotr_hi(lo, hi, 3)), shr_hi(hi, lo, 10))

sigma1_lo(hi, lo) ==
    xor16(xor16(rotr_lo(lo, hi, 1), rotr_lo(lo, hi, 3)), rotr_lo(hi, lo, 10))

\* Ch(x, y, z) = (x & y) ^ (~x & z), on one half: the two terms share no bit
Ch(x, y, z) == and16(x, y) + and16(Half - 1 - x, z)

\* Maj(x, y, z) = (x & y) ^ (x & z) ^ (y & z), on one half: bit by bit
\* x + y + z = (x ^ y ^ z) + 2 * Maj
Maj(x, y, z) == (x + y + z - xor16(xor16(x, y), z)) \div 2

\* the constants K_0 .. K_63 and the initial hash value, in halves
SHA256_K ==
    <<17034, 12184, 28983, 17553, 46528, 64463, 59829, 56229,
      14678, 49755, 23025, 4593, 37439, 33444, 43804, 24277,
      55303, 43672, 4739, 23297, 9265, 34238, 21772, 32195,
      29374, 23924, 32990, 45566, 39900, 1703, 49563, 61812,
      58523, 27073, 61374, 18310, 4033, 40390, 9228, 41420,
      11753, 11375, 19060, 33962, 23728, 43484, 30457, 35034,
      38974, 20818, 43057, 50797, 45059, 10184, 48985, 32711,
      50912, 3059, 54695, 37191, 1738, 25425, 5161, 10599,
      10167, 2693, 11803, 8504, 19756, 28156, 21304, 3347,
      25866, 29524, 30314, 2747, 33218, 51502, 37490, 11397,
      41663, 59553, 43034, 26187, 49739, 35696, 51052, 20899,
      53650, 59417, 54937, 1572, 62478, 13701, 4202, 41072,
      6564, 49430, 7735, 27656, 10056, 30540, 13488, 48309,
      14620, 3251, 20184, 43594, 23452, 51791, 26670, 28659,
      29839, 33518, 30885, 25455, 33992, 30740, 36039, 520,
      37054, 65530, 42064, 27883, 48889, 41975, 50801, 30962>>

SHA256_H0 ==
    <<27145, 58983, 47975, 44677, 15470, 62322, 42319, 62778,
      20750, 21119, 39685, 26764, 8067, 55723, 23520, 52505>>

\* the message schedule W_0 .. W_(t-1) with W_t added:
\* W_t = sigma1(W_(t-2)) + W_(t-7) + sigma0(W_(t-15)) + W_(t-16)
schedule_next(w) ==
    CHOOSE r \in
        {w \o <<(sigma1_hi(w[Len(w) - 3], w[Len(w) - 2]) + w[Len(w) - 13]
                    + sigma0_hi(w[Len(w) - 29], w[Len(w) - 28])
                    + w[Len(w) - 31] + lo \div Half) % Half,
                lo % Half>> :
            lo \in {sigma1_lo(w[Len(w) - 3], w[Len(w) - 2]) + w[Len(w) - 12]
                      + sigma0_lo(w[Len(w) - 29], w[Len(w) - 28])
                      + w[Len(w) - 30]}} : TRUE

\* count more words added, half of them and then the others
RECURSIVE schedule_from(_, _)
schedule_from(w, count) ==
    IF count = 1 THEN schedule_next(w)
    ELSE CHOOSE r \in {schedule_from(v, count - count \div 2) :
                           v \in {schedule_from(w, count \div 2)}} : TRUE

\* the message schedule W_0 .. W_63 of a block b of sixteen words
schedule(b) == CHOOSE r \in {schedule_from(w, 48) : w \in {<<>> \o b}} : TRUE

\* T1 = h + Sigma1(e) + Ch(e, f, g) + K_t + W_t and T2 = Sigma0(a) + Maj(a, b, c),
\* not yet reduced: <<T1 hi, T1 lo, T2 hi, T2 lo>>
round_sums(s, w, t) ==
    <<s[15] + Sigma1_hi(s[9], s[10]) + Ch(s[9], s[11], s[13])
          + SHA256_K[2 * t + 1] + w[2 * t + 1],
      s[16] + Sigma1_lo(s[9], s[10]) + Ch(s[10], s[12], s[14])
          + SHA256_K[2 * t + 2] + w[2 * t + 2],
      Sigma0_hi(s[1], s[2]) + Maj(s[1], s[3], s[5]),
      Sigma0_lo(s[1], s[2]) + Maj(s[2], s[4], s[6])>>

\* one round: h = g, g = f, f = e, e = d + T1, d = c, c = b, b = a,
\* a = T1 + T2
round(s, T) ==
    <<(T[1] + T[3] + (T[2] + T[4]) \div Half) % Half, (T[2] + T[4]) % Half,
      s[1], s[2], s[3], s[4], s[5], s[6],
      (s[7] + T[1] + (s[8] + T[2]) \div Half) % Half, (s[8] + T[2]) % Half,
      s[9], s[10], s[11], s[12], s[13], s[14]>>

\* count rounds from round t on, half of them and then the others
RECURSIVE rounds(_, _, _, _)
rounds(s, w, t, count) ==
    IF count = 1 THEN CHOOSE r \in {round(s, T) : T \in {round_sums(s, w, t)}} : TRUE
    ELSE CHOOSE r \in {rounds(m, w, t + count \div 2, count - count \div 2) :
                           m \in {rounds(s, w, t, count \div 2)}} : TRUE

\* the hash value after one more block b of 32 halves
compress(H, b) ==
    CHOOSE r \in
        {[k \in 1..16 |->
             IF k % 2 = 0 THEN (H[k] + s[k]) % Half
             ELSE (H[k] + s[k] + (H[k + 1] + s[k + 1]) \div Half) % Half] :
            s \in {rounds(H, w, 0, 64) : w \in {schedule(b)}}} : TRUE

\* the message padded: a byte 128, zeros up to 56 modulo 64, and the length
\* in bits as eight bytes
padded(data) ==
    data \o <<128>> \o [k \in 1..((119 - Len(data)) % 64) |-> 0]
         \o <<0, 0, 0, 0, 0, (Len(data) * 8) \div 65536,
              ((Len(data) * 8) \div 256) % 256, (Len(data) * 8) % 256>>

\* the halves of block k (from 0) of a padded message
block(p, k) == [j \in 1..32 |-> p[64 * k + 2 * j - 1] * 256 + p[64 * k + 2 * j]]

RECURSIVE absorb(_, _, _)
absorb(H, p, k) ==
    IF 64 * k = Len(p) THEN H
    ELSE CHOOSE r \in {absorb(n, p, k + 1) : n \in {compress(H, block(p, k))}} : TRUE

\* hashlib.sha256(data).digest() for a sequence of byte values
digest(data) ==
    CHOOSE d \in
        {[k \in 1..32 |-> IF k % 2 = 1 THEN H[(k + 1) \div 2] \div 256
                          ELSE H[k \div 2] % 256] :
            H \in {absorb(SHA256_H0, p, 0) : p \in {padded(data)}}} : TRUE

\* d[:n] for n >= 0
truncated(d, n) == SubSeq(d, 1, min(n, Len(d)))

(***************************************************************************)
(* 07_advanced_post_quantum.py: SPHINCSDemo.verify, as a function of its   *)
(* three arguments and of the instance's parameters n and w.               *)
(***************************************************************************)
\* the n and w of the instance that verify is called on (32 and 16 by
\* default)
SxN == 2

SxW == 2

\* _hash, lines 345-349: every argument is a byte string
sphincs_hash(args, n) == truncated(digest(join(args)), n)

\* verify that also requires sig_hash == expected
verify_content(public_key, message, signature, n, w) ==
    LET msg_hash == sphincs_hash(<<message>>, n)
        sig_hash == sphincs_hash(<<signature, msg_hash>>, n)
        expected == sphincs_hash(<<public_key, sphincs_hash(<<message>>, n)>>, n)
    IN  Len(signature) = w * n /\ sig_hash = expected

\* verify, lines 415-429: msg_hash, sig_hash and expected are computed and
\* not read
verify(public_key, message, signature, n, w) ==
    LET msg_hash == sphincs_hash(<<message>>, n)
        sig_hash == sphincs_hash(<<signature, msg_hash>>, n)
        expected == sphincs_hash(<<public_key, sphincs_hash(<<message>>, n)>>, n)
        valid    == Len(signature) = w * n
    IN  valid

\* the signatures tried: every byte string up to MaxSigLen bytes and every
\* one of w*n - 1, w*n and w*n + 1 bytes; keys and messages up to MaxKeyLen
MaxSigLen == 5

MaxKeyLen == 1

SxSignatures ==
    BytesUpTo(MaxSigLen) \cup BytesOfLen(SxW * SxN - 1) \cup BytesOfLen(SxW * SxN)
        \cup BytesOfLen(SxW * SxN + 1)

SxInit ==
    /\ sx \in [pc : {"call"}, public_key : BytesUpTo(MaxKeyLen),
               message : BytesUpTo(MaxKeyLen), signature : SxSignatures,
               valid : {FALSE}]
    /\ mi = Idle /\ rsa = Idle /\ td = Idle /\ pr = Idle /\ pf = Idle /\ sh = Idle
    /\ ky = Idle /\ lw = Idle /\ hv = Idle /\ cx = Idle /\ qk = Idle /\ vz = Idle
    /\ dm = Idle

SxVerify ==
    /\ sx.pc = "call"
    /\ sx' = [sx EXCEPT !.pc = "done",
                        !.valid = verify(sx.public_key, sx.message, sx.signature,
                                         SxN, SxW)]
    /\ UNCHANGED <<mi, rsa, td, pr, pf, sh, ky, lw, hv, cx, qk, vz, dm>>

SxNext == SxVerify

SpecSphincsVerify == SxInit /\ [][SxNext]_vars

\* C12: verify(publicKey, message, signature) returns true if and only if
\* len(signature) = w * n, whatever the public key, the message and the
\* bytes of the signature are.
C12_VerifyLengthOnly ==
    sx.pc = "done" => (sx.valid <=> Len(sx.signature) = SxW * SxN)

\* a string of w * n bytes that is accepted under an empty key and message
C12_Witness ==
    /\ sx.pc = "done" /\ sx.valid
    /\ sx.public_key = <<>> /\ sx.message = <<>>
    /\ sx.signature = [i \in 1..(SxW * SxN) |-> 1]

(***************************************************************************)
(* SPHINCSDemo.keygen, sign and verify in instances with several n and w.  *)
(* Hashes, chains and the bytes of the message hash that sign reads are    *)
(* those of SHA-256.  A chain step is one hash, so the messages signed are *)
(* chosen by the first bytes of their digests.                             *)
(***************************************************************************)
\* the bytes b[i], b[i+1] are continuation bytes, the first within lo..hi
utf8_tail(b, i, count, lo, hi) ==
    /\ i + count - 1 <= Len(b)
    /\ b[i] \in lo..hi
    /\ \A j \in (i + 1)..(i + count - 1) : b[j] \in 128..191

\* message.decode(), line 388, succeeds from byte i on: strict UTF-8, without
\* overlong forms, surrogates and code points beyond U+10FFFF
RECURSIVE utf8_valid(_, _)
utf8_valid(b, i) ==
    IF i > Len(b) THEN TRUE
    ELSE IF b[i] < 128 THEN utf8_valid(b, i + 1)
    ELSE IF b[i] \in 194..223
         THEN utf8_tail(b, i + 1, 1, 128, 191) /\ utf8_valid(b, i + 2)
    ELSE IF b[i] \in 224..239
         THEN /\ utf8_tail(b, i + 1, 2, IF b[i] = 224 THEN 160 ELSE 128,
                           IF b[i] = 237 THEN 159 ELSE 191)
              /\ utf8_valid(b, i + 3)
    ELSE IF b[i] \in 240..244
         THEN /\ utf8_tail(b, i + 1, 3, IF b[i] = 240 THEN 144 ELSE 128,
                           IF b[i] = 244 THEN 143 ELSE 191)
              /\ utf8_valid(b, i + 4)
    ELSE FALSE

decodes(message) == utf8_valid(message, 1)

\* i.to_bytes(4, 'big') for 0 <= i < 2^31
to_bytes4(i) == <<i \div 2^24, (i \div 2^16) % 256, (i \div 256) % 256, i % 256>>

\* b'sphincs_root'
sphincs_root == <<115, 112, 104, 105, 110, 99, 115, 95, 114, 111, 111, 116>>

\* _chain, lines 360-364: x = self._hash(x), steps times; the steps are
\* taken half by half
RECURSIVE chain(_, _, _)
chain(x, steps, n) ==
    IF steps <= 0 THEN x
    ELSE IF steps = 1 THEN sphincs_hash(<<x>>, n)
    ELSE CHOOSE z \in {chain(y, steps - steps \div 2, n) :
                           y \in {chain(x, steps \div 2, n)}} : TRUE

\* _wots_keygen, line 355: sk[i] is at index i + 1
wots_sk(seed, n, w) == [k \in 1..w |-> sphincs_hash(<<seed, to_bytes4(k - 1)>>, n)]

\* _wots_keygen, line 356
pk_elements(sk, n, w) == [k \in 1..w |-> chain(sk[k], w - 1, n)]

\* _wots_keygen, lines 355-358: <<sk, pk>>
wots_keygen(seed, n, w) ==
    LET sk == <<>> \o wots_sk(seed, n, w)
    IN  <<sk, sphincs_hash(pk_elements(sk, n, w), n)>>

\* the instances <<n, w>>: the defaults n = 32, w = 16, the benchmark's
\* n = 16, w = 16, and others with n or w small, n < w and n > 32
SgInstances ==
    ({1, 2, 16, 32, 33} \X {1, 2}) \cup {<<1, 16>>, <<16, 16>>, <<32, 16>>}

\* secrets.token_bytes(n): the strings of n equal bytes
token_bytes(n) == {[k \in 1..n |-> v] : v \in ByteValues}

\* The messages signed.  With w <= 2: b'"qx', b'erk' and b's3t', whose
\* digests start with the bytes 1 1, 2 1 and 0 0.  With n = 1, w = 16: b'',
\* b'\x00', b'\x01' and b'\x01\x00' (first digest byte 227, 110, 75, 71) and
\* b'\xff', which is not UTF-8.  With n >= 16, w = 16: b'kbzy', whose digest
\* starts with 16 bytes of sum 735.
SgMessages(n, w) ==
    IF w <= 2 THEN {<<34, 113, 120>>, <<101, 114, 107>>, <<115, 51, 116>>}
    ELSE IF n = 1 THEN {<<>>, <<0>>, <<1>>, <<1, 0>>, <<255>>}
    ELSE {<<107, 98, 122, 121>>}

SgInit ==
    /\ \E inst \in SgInstances :
          sx = [pc |-> "keygen", n |-> inst[1], w |-> inst[2], secret_key |-> <<>>,
                public_key |-> <<>>, message |-> <<>>, msg_hash |-> <<>>,
                wots_sk |-> <<>>, i |-> 0, chunk_val |-> 0, sig_parts |-> <<>>,
                signature |-> <<>>, valid |-> FALSE]
    /\ mi = Idle /\ rsa = Idle /\ td = Idle /\ pr = Idle /\ pf = Idle /\ sh = Idle
    /\ ky = Idle /\ lw = Idle /\ hv = Idle /\ cx = Idle /\ qk = Idle /\ vz = Idle
    /\ dm = Idle

\* keygen, lines 371-382
SgKeygen ==
    /\ sx.pc = "keygen"
    /\ \E sk_seed \in token_bytes(sx.n) :
          \E pk \in {wots_keygen(sk_seed, sx.n, sx.w)[2]} :
              sx' = [sx EXCEPT !.pc = "sign", !.secret_key = sk_seed,
                               !.public_key = sphincs_hash(<<pk, sphincs_root>>, sx.n)]
    /\ UNCHANGED <<mi, rsa, td, pr, pf, sh, ky, lw, hv, cx, qk, vz, dm>>

\* sign, lines 388-397: the message is decoded for the print of line 388,
\* which raises UnicodeDecodeError; then it is hashed and the one-time key
\* is derived from the secret key again (line 394 drops the public half
\* that _wots_keygen returns with it)
SgSign ==
    /\ sx.pc = "sign"
    /\ \E message \in SgMessages(sx.n, sx.w) :
          IF decodes(message)
          THEN sx' = [sx EXCEPT !.pc = "chunk", !.message = message,
                                !.msg_hash = sphincs_hash(<<message>>, sx.n),
                                !.wots_sk = <<>> \o wots_sk(sx.secret_key, sx.n, sx.w)]
          ELSE sx' = [sx EXCEPT !.pc = "raised", !.message = message]
    /\ UNCHANGED <<mi, rsa, td, pr, pf, sh, ky, lw, hv, cx, qk, vz, dm>>

\* sign, lines 398-400: one round of for i in range(min(len(msg_hash), self.w))
SgChunk ==
    /\ sx.pc = "chunk"
    /\ sx.i < min(Len(sx.msg_hash), sx.w)
    /\ \E chunk_val \in {sx.msg_hash[(sx.i % Len(sx.msg_hash)) + 1]} :
          sx' = [sx EXCEPT !.i = @ + 1, !.chunk_val = chunk_val,
                           !.sig_parts = Append(@, chain(sx.wots_sk[sx.i + 1],
                                                         chunk_val, sx.n))]
    /\ UNCHANGED <<mi, rsa, td, pr, pf, sh, ky, lw, hv, cx, qk, vz, dm>>

\* sign, lines 402-407: signature = b''.join(sig_parts)
SgJoin ==
    /\ sx.pc = "chunk"
    /\ sx.i = min(Len(sx.msg_hash), sx.w)
    /\ sx' = [sx EXCEPT !.pc = "verify", !.signature = join(sx.sig_parts)]
    /\ UNCHANGED <<mi, rsa, td, pr, pf, sh, ky, lw, hv, cx, qk, vz, dm>>

\* verify(public_key, message, signature)
SgVerify ==
    /\ sx.pc = "verify"
    /\ sx' = [sx EXCEPT !.pc = "done",
                        !.valid = verify(sx.public_key, sx.message, sx.signature,
                                         sx.n, sx.w)]
    /\ UNCHANGED <<mi, rsa, td, pr, pf, sh, ky, lw, hv, cx, qk, vz, dm>>

SgNext == SgKeygen \/ SgSign \/ SgChunk \/ SgJoin \/ SgVerify

SpecSphincsSign == SgInit /\ [][SgNext]_vars

\* C29: for all n >= 1 and w >= 1, every key pair of keygen() and every
\* message, sign(sk, message) is a signature of exactly w * n bytes and
\* verify(pk, message, sign(sk, message)) returns true.
C29_HonestVerifies ==
    /\ sx.pc # "raised"
    /\ sx.pc \in {"verify", "done"} => Len(sx.signature) = sx.w * sx.n
    /\ sx.pc = "done" => sx.valid

\* what does hold: sign raises on a message that is not UTF-8; otherwise
\* the signature has min(n, 32, w) parts of min(n, 32) bytes, and it
\* verifies exactly in the instances with w <= n <= 32
C29_Actual ==
    /\ sx.pc = "raised" => ~decodes(sx.message)
    /\ sx.pc \in {"verify", "done"} =>
          Len(sx.signature) = min(min(sx.n, DigestSize), sx.w) * min(sx.n, DigestSize)
    /\ sx.pc = "done" => (sx.valid <=> (sx.w <= sx.n /\ sx.n <= DigestSize))

\* the default instance verifies its signature of 512 bytes
C29_Default ==
    /\ sx.pc = "done" /\ sx.n = 32 /\ sx.w = 16 /\ sx.valid
    /\ Len(sx.signature) = 512

\* sign(sk, b'\xff') raises
C29_Raised == sx.pc = "raised" /\ sx.message = <<255>>

\* n = 1, w = 2: a signature of one byte is rejected
C29_Rejected ==
    /\ sx.pc = "done" /\ sx.n = 1 /\ sx.w = 2 /\ ~sx.valid
    /\ Len(sx.signature) = 1

\* x is target, or becomes target within the given number of hashes
RECURSIVE reaches(_, _, _, _)
reaches(x, target, steps, n) ==
    \/ x = target
    \/ /\ steps > 0
       /\ \E y \in {sphincs_hash(<<x>>, n)} : reaches(y, target, steps - 1, n)

\* the part signed last is on its chain at or before the public endpoint:
\* some number of steps in 0..w-1 takes it there
OnChain ==
    \E target \in {chain(sx.wots_sk[sx.i], sx.w - 1, sx.n)} :
        reaches(sx.sig_parts[sx.i], target, sx.w - 1, sx.n)

\* C30: in sign, chain i is advanced from wots_sk[i] by at most w - 1 steps,
\* the number of steps _wots_keygen uses for the public endpoint, so every
\* signature element can be advanced by the remaining steps to that endpoint.
C30_WithinChain ==
    (sx.pc = "chunk" /\ sx.i > 0) =>
        /\ sx.chunk_val <= sx.w - 1
        /\ chain(sx.sig_parts[sx.i], sx.w - 1 - sx.chunk_val, sx.n)
              = chain(sx.wots_sk[sx.i], sx.w - 1, sx.n)

\* what does hold: the number of steps is the byte msg_hash[i], whatever w
\* is; when that byte is below w the remaining steps lead to the endpoint;
\* when it is not, the element is beyond the endpoint, and with hashes of
\* 32 bytes no number of steps in 0..w-1 leads back to it
C30_Actual ==
    (sx.pc = "chunk" /\ sx.i > 0) =>
        /\ sx.chunk_val = digest(sx.message)[sx.i]
        /\ sx.sig_parts[sx.i] = chain(sx.wots_sk[sx.i], sx.chunk_val, sx.n)
        /\ sx.chunk_val <= sx.w - 1 =>
              chain(sx.sig_parts[sx.i], sx.w - 1 - sx.chunk_val, sx.n)
                  = chain(sx.wots_sk[sx.i], sx.w - 1, sx.n)
        /\ (sx.chunk_val > sx.w - 1 /\ sx.n = DigestSize) => ~OnChain

\* the default instance on b'kbzy': 81 steps on a chain whose endpoint is
\* 15 steps from its start
C30_Overshoot ==
    /\ sx.pc = "chunk" /\ sx.n = 32 /\ sx.w = 16 /\ sx.i = 1
    /\ sx.message = <<107, 98, 122, 121>> /\ sx.chunk_val = 81 /\ ~OnChain

\* n = 32, w = 2 on the message b'"qx': both bytes are 1 = w - 1
C30_OnEndpoint ==
    /\ sx.pc = "chunk" /\ sx.n = 32 /\ sx.w = 2 /\ sx.i = 2
    /\ sx.message = <<34, 113, 120>> /\ sx.chunk_val = 1 /\ OnChain

\* n = 1, w = 16, seed b'\x01' on b'': the chain of one-byte hashes runs
\* into a cycle, and after 227 steps the element is the endpoint b'\x62'
\* that 15 steps reach
C30_Cycle ==
    /\ sx.pc = "chunk" /\ sx.n = 1 /\ sx.w = 16 /\ sx.i = 1
    /\ sx.secret_key = <<1>> /\ sx.message = <<>> /\ sx.chunk_val = 227
    /\ sx.sig_parts[1] = <<98>> /\ OnChain

(***************************************************************************)
(* 05_post_quantum.py: hash_based_keypair, hash_based_sign and             *)
(* hash_based_verify                                                       *)
(***************************************************************************)
\* hash_based_keypair(seed), lines 17-21: <<private_key, public_key>>
hash_based_keypair(seed) ==
    LET private_key == digest(seed)
    IN  <<private_key, digest(private_key)>>

\* hash_based_sign, line 25
hash_based_sign(message, private_key) == digest(private_key \o message)

\* hash_based_verify that returns signature == expected
hash_based_verify_expected(message, signature, public_key) ==
    LET expected == digest(reversed(digest(public_key)) \o message)
    IN  signature = expected

\* hash_based_verify, lines 27-32: expected is computed and not read
hash_based_verify(message, signature, public_key) ==
    LET expected == digest(reversed(digest(public_key)) \o message)
    IN  TRUE

\* the arguments tried: messages and seeds of at most MaxMsgLen and
\* MaxSeedLen bytes; as public key a generated one or any short byte string;
\* as signature one made by hash_based_sign (for any of the messages, under
\* any of the keys) or any short byte string
MaxMsgLen == 2

MaxSeedLen == 1

HvMessages == BytesUpTo(MaxMsgLen)

HvKeypairs(len) == {hash_based_keypair(seed) : seed \in BytesUpTo(len)}

HvPublicKeys(keypairs) == {kp[2] : kp \in keypairs} \cup BytesUpTo(MaxSeedLen)

HvSignatures(keypairs) ==
    {hash_based_sign(message, kp[1]) : message \in HvMessages, kp \in keypairs}
        \cup BytesUpTo(MaxMsgLen)

HvInit ==
    /\ \E keypairs \in {HvKeypairs(MaxSeedLen)} :
          hv \in [pc : {"call"}, message : HvMessages,
                  signature : HvSignatures(keypairs),
                  public_key : HvPublicKeys(keypairs), out : {FALSE}]
    /\ mi = Idle /\ rsa = Idle /\ td = Idle /\ pr = Idle /\ pf = Idle /\ sh = Idle
    /\ ky = Idle /\ lw = Idle /\ sx = Idle /\ cx = Idle /\ qk = Idle /\ vz = Idle
    /\ dm = Idle

HvVerify ==
    /\ hv.pc = "call"
    /\ hv' = [hv EXCEPT !.pc = "done",
                        !.out = hash_based_verify(hv.message, hv.signature, hv.public_key)]
    /\ UNCHANGED <<mi, rsa, td, pr, pf, sh, ky, lw, sx, cx, qk, vz, dm>>

HvNext == HvVerify

SpecHashVerify == HvInit /\ [][HvNext]_vars

\* C13: hash_based_verify(message, signature, publicKey) returns true for
\* every message, every signature and every public key, including
\* signatures that hash_based_sign did not make with the matching key.
C13_VerifyAlwaysTrue == hv.pc = "done" => hv.out = TRUE

\* a one-byte string accepted as the signature of a message under the
\* public key generated from the empty seed
C13_Witness ==
    /\ hv.pc = "done" /\ hv.out = TRUE
    /\ hv.message = <<1>>
    /\ hv.signature = <<0>>
    /\ Len(hv.public_key) = DigestSize
    /\ hv.public_key = hash_based_keypair(<<>>)[2]

(***************************************************************************)
(* 04_comparison.py: quantum_complexity, ops_to_time, classical_complexity *)
(***************************************************************************)
\* quantum_complexity that stops at 10^9
quantum_complexity_capped(bits) ==
    LET cube == IntMul(IntMul(Int2(bits), Int2(bits)), Int2(bits))
    IN  IF IntLt(Int2(10^9), cube) THEN Int2(10^9) ELSE cube

\* quantum_complexity, line 18: bits ** 3 on Python's integers
quantum_complexity(bits) == IntMul(IntMul(Int2(bits), Int2(bits)), Int2(bits))

\* An operation count is <<whole, rest>> = whole * 10^9 + rest with
\* 0 <= rest < 10^9, below 2^55.
OpsPerSec == 10^9

\* float(ops), line 22: the division by the float 1e9 first converts the
\* integer.  Below 2^53 the conversion is exact; from 2^53 on the doubles
\* are the multiples of 2, from 2^54 on the multiples of 4, and the integer
\* goes to the nearest of them, a tie to the one with the even mantissa.
\* 10^9 is a multiple of 8, so the position of ops between two doubles is
\* that of rest.
float_of_int(ops) ==
    LET s    == IF IntLt(ops, <<9007199, 254740992>>) THEN 1
                ELSE IF IntLt(ops, <<18014398, 509481984>>) THEN 2 ELSE 4
        r    == ops[2] % s
        down == ops[2] - r
        up   == 2 * r > s \/ (2 * r = s /\ (down \div s) % 2 = 1)
        rest == IF up THEN down + s ELSE down
    IN  IF rest = OpsPerSec THEN <<ops[1] + 1, 0>> ELSE <<ops[1], rest>>

\* secs = ops / 1e9, line 22, rounded down to whole seconds.  The quotient
\* of the two doubles is rounded to the nearest double.  With
\* 2^e <= whole < 2^(e+1) the doubles next to whole + 1 are 2^(e-52) apart,
\* so the quotient is whole + 1 once the fraction of a second that is
\* missing, (10^9 - rest) / 10^9, is below 2^(e-53); every other rounding
\* stays inside the second.  For an integer t, secs < t is then
\* secs_float(ops) < t.
secs_float(ops) ==
    LET y == float_of_int(ops)
        k == 53 - floor_log2(y[1])
    IN  IF /\ y[1] >= 1
           /\ y[2] > 0
           /\ k < 30
           /\ OpsPerSec - y[2] <= OpsPerSec \div 2^k
        THEN y[1] + 1
        ELSE y[1]

\* ops_to_time with the first test as secs <= 60
ops_to_time_le(ops) ==
    LET secs == secs_float(ops)
    IN  IF secs <= 60 /\ ~(secs = 60 /\ ops[2] > 0)
             THEN [unit |-> "sec", divisor |-> 1, format |-> ".2f"]
        ELSE IF secs < 3600 THEN [unit |-> "min", divisor |-> 60, format |-> ".2f"]
        ELSE IF secs < 86400 THEN [unit |-> "hours", divisor |-> 3600, format |-> ".2f"]
        ELSE IF secs < 31536000 THEN [unit |-> "days", divisor |-> 86400, format |-> ".2f"]
        ELSE [unit |-> "years", divisor |-> 31536000, format |-> ".2e"]

\* ops_to_time, lines 22-27: the unit named in the text, the divisor applied
\* to secs and the format of the number
ops_to_time(ops) ==
    LET secs == secs_float(ops)
    IN  IF secs < 60 THEN [unit |-> "sec", divisor |-> 1, format |-> ".2f"]
        ELSE IF secs < 3600 THEN [unit |-> "min", divisor |-> 60, format |-> ".2f"]
        ELSE IF secs < 86400 THEN [unit |-> "hours", divisor |-> 3600, format |-> ".2f"]
        ELSE IF secs < 31536000 THEN [unit |-> "days", divisor |-> 86400, format |-> ".2f"]
        ELSE [unit |-> "years", divisor |-> 31536000, format |-> ".2e"]

(***************************************************************************)
(* classical_complexity works on floats, and every float of the model is   *)
(* the double the code computes.  A double is a sign, a mantissa of 53     *)
(* bits and the exponent of the mantissa's last bit; the mantissa is a     *)
(* natural number of any size, held as the sequence of its digits in base  *)
(* 2^14, lowest first, without a leading zero digit (0 is <<>>), so that   *)
(* every digit operation stays below 2^31.  +, -, * and the fused          *)
(* multiply-add are the exact result rounded to the nearest double, a tie  *)
(* to the even mantissa.                                                   *)
(*                                                                         *)
(* math.log, ** and math.exp are the C library's log, pow and exp (glibc   *)
(* 2.36, x86-64, the variant for processors with fused multiply-add):      *)
(* their tables and the order of their float operations are part of the    *)
(* model, so that the last bit of each result is the library's, which is   *)
(* not always the nearest double.  Not carried: the sign of a zero,        *)
(* results below 2^-1022, NaN, and a second argument of pow outside        *)
(* 2^-65 .. 2^63.  Line 10, n = 2 ** bits, only computes a number that is  *)
(* not read.                                                               *)
(***************************************************************************)
BigBase == 2^14

RECURSIVE Big(_)
Big(n) == IF n = 0 THEN <<>> ELSE <<n % BigBase>> \o Big(n \div BigBase)

RECURSIVE BigTop(_, _)
BigTop(a, k) == IF k = 0 \/ a[k] # 0 THEN k ELSE BigTop(a, k - 1)

\* a without its leading zero digits
BigTrim(a) == SubSeq(a, 1, BigTop(a, Len(a)))

RECURSIVE BigCarry(_, _, _)
BigCarry(cols, i, carry) ==
    IF i > Len(cols) THEN Big(carry)
    ELSE <<(cols[i] + carry) % BigBase>>
             \o BigCarry(cols, i + 1, (cols[i] + carry) \div BigBase)

\* the number sum of cols[i] * BigBase^(i-1), for columns of any size
BigNorm(cols) ==
    CHOOSE r \in {BigTrim(d) : d \in {BigCarry(c, 1, 0) : c \in {<<>> \o cols}}} : TRUE

BigDigit(a, i) == IF i <= Len(a) THEN a[i] ELSE 0

BigAdd(a, b) ==
    BigNorm([i \in 1..(IF Len(a) < Len(b) THEN Len(b) ELSE Len(a)) |->
                BigDigit(a, i) + BigDigit(b, i)])

\* a - b for a >= b
BigSub(a, b) == BigNorm([i \in 1..Len(a) |-> a[i] - BigDigit(b, i)])

\* a * m for 0 <= m < 2^17
BigMulSmall(a, m) == BigNorm([i \in 1..Len(a) |-> a[i] * m])

RECURSIVE BigColumn(_, _, _, _)
BigColumn(a, b, k, i) ==
    IF i > k \/ i > Len(a) THEN 0
    ELSE a[i] * b[k + 1 - i] + BigColumn(a, b, k, i + 1)

\* a * b, one of them of at most 8 digits
BigMul(a, b) ==
    CHOOSE r \in {IF x = <<>> \/ y = <<>> THEN <<>>
                  ELSE BigNorm([k \in 1..(Len(x) + Len(y) - 1) |->
                                  BigColumn(x, y, k,
                                            IF k < Len(y) THEN 1 ELSE k + 1 - Len(y))])
                  : x \in {a}, y \in {b}} : TRUE

RECURSIVE BigCompareFrom(_, _, _)
BigCompareFrom(a, b, i) ==
    IF i = 0 THEN 0
    ELSE IF a[i] # b[i] THEN (IF a[i] < b[i] THEN -1 ELSE 1)
    ELSE BigCompareFrom(a, b, i - 1)

\* -1, 0 or 1: the sign of a - b
BigCompare(a, b) ==
    IF Len(a) # Len(b) THEN (IF Len(a) < Len(b) THEN -1 ELSE 1)
    ELSE BigCompareFrom(a, b, Len(a))

BigLe(a, b) == BigCompare(a, b) <= 0

BigLt(a, b) == BigCompare(a, b) < 0

\* a * BigBase^k and a // BigBase^k
BigShl(a, k) == IF a = <<>> THEN <<>> ELSE [i \in 1..k |-> 0] \o a

BigShr(a, k) == SubSeq(a, k + 1, Len(a))

\* 2^n
BigPow2(n) == BigShl(Big(2^(n % 14)), n \div 14)

\* int.bit_length
BigBitLen(a) == IF a = <<>> THEN 0 ELSE 14 * (Len(a) - 1) + floor_log2(a[Len(a)]) + 1

\* the largest q in lo..hi with q * d <= r
RECURSIVE BigQuotDigit(_, _, _, _)
BigQuotDigit(r, d, lo, hi) ==
    IF lo = hi THEN lo
    ELSE LET mid == (lo + hi + 1) \div 2
         IN  IF BigLe(BigMulSmall(d, mid), r) THEN BigQuotDigit(r, d, mid, hi)
             ELSE BigQuotDigit(r, d, lo, mid - 1)

BigDivStep(r, d) ==
    LET q == BigQuotDigit(r, d, 0, BigBase - 1)
    IN  <<q, BigSub(r, BigMulSmall(d, q))>>

\* one step of the long division of a by d at digit i, from st = <<the
\* digits of the quotient found so far, the remainder>>
BigDivDigit(a, d, i, st) ==
    CHOOSE res \in
        {<<<<s[1]>> \o st[1], s[2]>>
         : s \in {BigDivStep(r1, d) : r1 \in {BigTrim(<<a[i]>> \o st[2])}}} : TRUE

\* count steps from digit i down, half of them and then the others
RECURSIVE BigDivFrom(_, _, _, _, _)
BigDivFrom(a, d, i, count, st) ==
    IF count = 0 THEN st
    ELSE IF count = 1 THEN BigDivDigit(a, d, i, st)
    ELSE CHOOSE res \in
             {BigDivFrom(a, d, i - count \div 2, count - count \div 2, m)
              : m \in {BigDivFrom(a, d, i, count \div 2, st)}} : TRUE

\* divmod(a, d) for d > 0
BigDivMod(a, d) ==
    CHOOSE r \in {<<BigTrim(qr[1]), qr[2]>> :
                     qr \in {BigDivFrom(x, y, Len(x), Len(x), <<<<>>, <<>>>>)
                             : x \in {a}, y \in {d}}} : TRUE

\* a * 2^n and a // 2^n
BigShlBits(a, n) == BigShl(BigMulSmall(a, 2^(n % 14)), n \div 14)

BigShrBits(a, n) ==
    LET d == BigShr(a, n \div 14)
        b == n % 14
    IN  BigTrim([i \in 1..Len(d) |->
                    (d[i] \div 2^b) + (BigDigit(d, i + 1) % 2^b) * 2^(14 - b)])

\* bit n of a, and whether the bits below bit n are all 0
BigBit(a, n) == (BigDigit(a, n \div 14 + 1) \div 2^(n % 14)) % 2

BigLowZero(a, n) ==
    /\ \A i \in 1..(n \div 14) : BigDigit(a, i) = 0
    /\ BigDigit(a, n \div 14 + 1) % 2^(n % 14) = 0

\* the number a, for a < 2^28
BigSmall(a) == BigDigit(a, 1) + BigBase * BigDigit(a, 2)

\* The double 0.0, and what stands for a result beyond the doubles
Zero == [neg |-> FALSE, man |-> <<>>, exp |-> 0]

Infinity == [neg |-> FALSE, man |-> <<>>, exp |-> 1024]

\* m / 2^drop rounded to an integer, a tie to the even one
HalfEven(m, drop) ==
    LET q  == BigShrBits(m, drop)
        up == /\ BigBit(m, drop - 1) = 1
              /\ (~BigLowZero(m, drop - 1) \/ q[1] % 2 = 1)
    IN  IF up THEN BigAdd(q, Big(1)) ELSE q

\* The double nearest to (-1)^neg * m * 2^e, a tie to the even mantissa;
\* a mantissa rounded up to 2^53 is 2^52 at the next exponent
RoundEven(neg, m, e) ==
    LET drop == BigBitLen(m) - 53
    IN  IF m = <<>> THEN Zero
        ELSE IF drop <= 0
             THEN [neg |-> neg, man |-> BigShlBits(m, -drop), exp |-> e + drop]
        ELSE CHOOSE d \in
                 {IF BigBitLen(r) > 53
                  THEN [neg |-> neg, man |-> BigPow2(52), exp |-> e + drop + 1]
                  ELSE [neg |-> neg, man |-> r, exp |-> e + drop]
                  : r \in {HalfEven(m, drop)}} : TRUE

\* The doubles of the tables are written <<s, d0, d1, d2, d3, e>>, for
\* s * (d0 + d1 * 2^14 + d2 * 2^28 + d3 * 2^42) * 2^e with s = 1 or -1 and
\* the 53-bit mantissa in four digits; 0.0 is <<1, 0, 0, 0, 0, 0>>.
Dbl(t) ==
    [neg |-> t[1] < 0, man |-> BigTrim(<<t[2], t[3], t[4], t[5]>>), exp |-> t[6]]

\* the registers that a table of named doubles gives
registers(data) == [n \in DOMAIN data |-> Dbl(data[n])]

One == Dbl(<<1, 0, 0, 0, 1024, -52>>)

\* Exact arithmetic on numbers (-1)^neg * man * 2^exp with any mantissa
Negate(x) == IF x.man = <<>> THEN x ELSE [x EXCEPT !.neg = ~x.neg]

Product(x, y) ==
    IF x.man = <<>> \/ y.man = <<>> THEN Zero
    ELSE [neg |-> x.neg # y.neg, man |-> BigMul(x.man, y.man), exp |-> x.exp + y.exp]

\* (-1)^xn * a + (-1)^yn * b, at the exponent e
Signed(xn, a, yn, b, e) ==
    LET c == BigCompare(a, b)
    IN  IF xn = yn THEN [neg |-> xn, man |-> BigAdd(a, b), exp |-> e]
        ELSE IF c = 0 THEN Zero
        ELSE IF c > 0 THEN [neg |-> xn, man |-> BigSub(a, b), exp |-> e]
        ELSE [neg |-> yn, man |-> BigSub(b, a), exp |-> e]

Sum(x, y) ==
    LET e == min(x.exp, y.exp)
    IN  IF x.man = <<>> THEN y
        ELSE IF y.man = <<>> THEN x
        ELSE Signed(x.neg, BigShlBits(x.man, x.exp - e),
                    y.neg, BigShlBits(y.man, y.exp - e), e)

\* x < y
Less(x, y) == Sum(x, Negate(y)).neg

\* The float operations: the exact result of the operation on the values
\* of the operands, rounded
Rounded(v) == CHOOSE r \in {RoundEven(w.neg, w.man, w.exp) : w \in {v}} : TRUE

fadd(x, y) == CHOOSE r \in {Rounded(Sum(a, b)) : a \in {x}, b \in {y}} : TRUE

fmul(x, y) == CHOOSE r \in {Rounded(Product(a, b)) : a \in {x}, b \in {y}} : TRUE

\* float(n) for an integer n, and int(x) for a double x that is an integer
\* below 2^28 in size
to_double(n) == RoundEven(n < 0, Big(abs(n)), 0)

to_int(x) ==
    LET n == BigSmall(BigShrBits(x.man, -x.exp))
    IN  IF x.neg THEN -n ELSE n

\* a / b for integers a >= 0 and b > 0: the quotient to at least 55 bits,
\* one more bit for what is left, rounded
true_divide(a, b) ==
    LET s == 55 + BigBitLen(Big(b))
    IN  CHOOSE r \in
            {RoundEven(FALSE,
                       BigAdd(BigMulSmall(qr[1], 2),
                              IF qr[2] = <<>> THEN <<>> ELSE Big(1)),
                       -(s + 1))
             : qr \in {BigDivMod(BigShlBits(Big(a), s), Big(b))}} : TRUE

\* A library function is a sequence of float instructions on named
\* registers, <<dst, op, a, b>> or <<dst, op, a, b, c>>: dst = a + b, a - b,
\* a * b, fma(a, b, c) or fma(a, b, -c).
exec(regs, ins) ==
    LET x == regs[ins[3]]
        y == regs[ins[4]]
        first  == IF ins[2] \in {"add", "sub"} THEN x ELSE Product(x, y)
        second == CASE ins[2] = "add" -> y
                    [] ins[2] = "sub" -> Negate(y)
                    [] ins[2] = "mul" -> Zero
                    [] ins[2] = "fma" -> regs[ins[5]]
                    [] ins[2] = "fms" -> Negate(regs[ins[5]])
    IN  CHOOSE r \in {(ins[1] :> w) @@ regs : w \in {Rounded(Sum(first, second))}} : TRUE

\* count instructions from instruction i on, half of them and then the
\* others
RECURSIVE run_from(_, _, _, _)
run_from(regs, prog, i, count) ==
    IF count = 0 THEN regs
    ELSE IF count = 1 THEN exec(regs, prog[i])
    ELSE CHOOSE r \in
             {run_from(m, prog, i + count \div 2, count - count \div 2)
              : m \in {run_from(regs, prog, i, count \div 2)}} : TRUE

run(regs, prog) == run_from(regs, prog, 1, Len(prog))

\* x = 2^k * z for a double x > 0, with z in [off, 2 * off) for the double
\* off in [0.5, 1) whose mantissa is 2^52 + frac; i counts the 128th of
\* that interval z is in.  (tmp = ix - OFF; i = (tmp >> 45) % 128;
\* k = tmp >> 52; iz = ix - (tmp & 0xfff << 52).)
reduce(x, frac) ==
    LET f   == BigSub(x.man, BigPow2(52))
        low == BigLt(f, frac)
        t   == IF low THEN BigSub(BigAdd(f, BigPow2(52)), frac) ELSE BigSub(f, frac)
    IN  [i |-> BigSmall(BigShrBits(t, 45)),
         k |-> x.exp + 52 + (IF low THEN 0 ELSE 1),
         z |-> [neg |-> FALSE, man |-> x.man, exp |-> IF low THEN -52 ELSE -53]]

(***************************************************************************)
(* log: __log of sysdeps/ieee754/dbl-64/e_log.c and its data               *)
(***************************************************************************)
\* ln 2 in two parts, the polynomial A of log1p(r) - r, and -1.0
log_data ==
    ("Ln2hi" :> <<1, 14336, 15336, 9263, 1419, -53>> @@
     "Ln2lo" :> <<1, 10032, 3869, 13689, 1980, -97>> @@
     "m1" :> <<-1, 0, 0, 0, 1024, -52>> @@
     "A0" :> <<-1, 1, 0, 0, 1024, -53>> @@
     "A1" :> <<1, 12379, 5444, 5461, 1365, -54>> @@
     "A2" :> <<-1, 1424, 16301, 16383, 2047, -55>> @@
     "A3" :> <<1, 273, 5060, 6962, 1638, -55>> @@
     "A4" :> <<-1, 2207, 5147, 5982, 1365, -55>>)

\* the polynomial B used next to 1, and the constants of that branch
log1_data ==
    ("one" :> <<1, 0, 0, 0, 1024, -52>> @@
     "p27" :> <<1, 0, 0, 0, 1024, -25>> @@
     "m27" :> <<-1, 0, 0, 0, 1024, -25>> @@
     "B0" :> <<-1, 0, 0, 0, 1024, -53>> @@
     "B1" :> <<1, 5495, 5461, 5461, 1365, -54>> @@
     "B2" :> <<-1, 15819, 16383, 16383, 2047, -55>> @@
     "B3" :> <<1, 7436, 9815, 6553, 1638, -55>> @@
     "B4" :> <<-1, 1447, 5533, 5461, 1365, -55>> @@
     "B5" :> <<1, 7728, 3347, 4682, 1170, -55>> @@
     "B6" :> <<-1, 15717, 4360, 16378, 2047, -56>> @@
     "B7" :> <<1, 5834, 8363, 6210, 1820, -56>> @@
     "B8" :> <<-1, 10495, 3777, 7860, 1638, -56>> @@
     "B9" :> <<1, 4229, 7871, 6191, 1504, -56>> @@
     "B10" :> <<-1, 1485, 5957, 8503, 1364, -56>>)

\* <<invc, logc>> for each of the 128 intervals of z: invc is near 1/c and
\* logc near ln c for a c in the interval
log_tab ==
    <<<<<<1, 7839, 3971, 3852, 1485, -52>>, <<-1, 4096, 10138, 2039, 1523, -54>>>>,
      <<<<1, 10527, 10419, 14214, 1476, -52>>, <<-1, 0, 2100, 16108, 1499, -54>>>>,
      <<<<1, 13728, 9194, 9728, 1468, -52>>, <<-1, 8192, 3399, 15921, 1476, -54>>>>,
      <<<<1, 3197, 15438, 6753, 1460, -52>>, <<-1, 14336, 8353, 1459, 1454, -54>>>>,
      <<<<1, 13521, 12054, 5264, 1452, -52>>, <<-1, 14336, 513, 5465, 1431, -54>>>>,
      <<<<1, 3258, 3260, 5235, 1444, -52>>, <<-1, 0, 6240, 11527, 1408, -54>>>>,
      <<<<1, 547, 8329, 6641, 1436, -52>>, <<-1, 4096, 6722, 3240, 1386, -54>>>>,
      <<<<1, 7897, 9876, 9465, 1428, -52>>, <<-1, 4096, 6157, 13365, 1363, -54>>>>,
      <<<<1, 9412, 10812, 13674, 1420, -52>>, <<-1, 0, 3501, 9084, 1341, -54>>>>,
      <<<<1, 7188, 11895, 2870, 1413, -52>>, <<-1, 4096, 13985, 6783, 1319, -54>>>>,
      <<<<1, 7244, 2841, 9797, 1405, -52>>, <<-1, 10240, 9766, 6435, 1297, -54>>>>,
      <<<<1, 11343, 5700, 1659, 1398, -52>>, <<-1, 14336, 9922, 8003, 1275, -54>>>>,
      <<<<1, 4318, 11630, 11212, 1390, -52>>, <<-1, 12288, 4669, 11492, 1253, -54>>>>,
      <<<<1, 6776, 2916, 5663, 1383, -52>>, <<-1, 8192, 7926, 481, 1232, -54>>>>,
      <<<<1, 5767, 2329, 1377, 1376, -52>>, <<-1, 0, 15642, 7726, 1210, -54>>>>,
      <<<<1, 11219, 15261, 14716, 1368, -52>>, <<-1, 8192, 8387, 435, 1189, -54>>>>,
      <<<<1, 16275, 2717, 12894, 1361, -52>>, <<-1, 2048, 13162, 11352, 1167, -54>>>>,
      <<<<1, 1411, 2073, 12276, 1354, -52>>, <<-1, 4096, 9374, 7698, 1146, -54>>>>,
      <<<<1, 15839, 11978, 12845, 1347, -52>>, <<-1, 14336, 11555, 5842, 1125, -54>>>>,
      <<<<1, 7895, 7379, 14580, 1340, -52>>, <<-1, 14336, 10983, 5753, 1104, -54>>>>,
      <<<<1, 10304, 16248, 1084, 1334, -52>>, <<-1, 6144, 5054, 7433, 1083, -54>>>>,
      <<<<1, 9160, 482, 5100, 1327, -52>>, <<-1, 4096, 9068, 10833, 1062, -54>>>>,
      <<<<1, 9610, 3968, 10236, 1320, -52>>, <<-1, 14336, 2446, 15973, 1041, -54>>>>,
      <<<<1, 1076, 4946, 82, 1314, -52>>, <<-1, 12288, 5659, 12836, 2042, -55>>>>,
      <<<<1, 11531, 11364, 7393, 1307, -52>>, <<-1, 12288, 5214, 13479, 2001, -55>>>>,
      <<<<1, 6228, 3300, 15773, 1300, -52>>, <<-1, 12288, 13376, 1091, 1961, -55>>>>,
      <<<<1, 1114, 4818, 8820, 1294, -52>>, <<-1, 12288, 5030, 8404, 1920, -55>>>>,
      <<<<1, 14587, 1111, 2900, 1288, -52>>, <<-1, 12288, 9695, 2594, 1880, -55>>>>,
      <<<<1, 13489, 10491, 14381, 1281, -52>>, <<-1, 4096, 4694, 16, 1840, -55>>>>,
      <<<<1, 16015, 13663, 10485, 1275, -52>>, <<-1, 4096, 6692, 661, 1800, -55>>>>,
      <<<<1, 3305, 45, 7578, 1269, -52>>, <<-1, 4096, 13828, 4472, 1760, -55>>>>,
      <<<<1, 299, 67, 5644, 1263, -52>>, <<-1, 4096, 13135, 11420, 1720, -55>>>>,
      <<<<1, 6840, 11735, 4674, 1257, -52>>, <<-1, 4096, 14410, 5122, 1681, -55>>>>,
      <<<<1, 4098, 13951, 4652, 1251, -52>>, <<-1, 12288, 8311, 1910, 1642, -55>>>>,
      <<<<1, 14876, 5649, 5564, 1245, -52>>, <<-1, 12288, 9504, 1750, 1603, -55>>>>,
      <<<<1, 14050, 9908, 7396, 1239, -52>>, <<-1, 0, 6423, 4618, 1564, -55>>>>,
      <<<<1, 5184, 8503, 10137, 1233, -52>>, <<-1, 12288, 4176, 10491, 1525, -55>>>>,
      <<<<1, 2852, 15359, 13772, 1227, -52>>, <<-1, 12288, 12681, 2947, 1487, -55>>>>,
      <<<<1, 3401, 5764, 1911, 1222, -52>>, <<-1, 8192, 11485, 14761, 1448, -55>>>>,
      <<<<1, 14736, 7416, 7299, 1216, -52>>, <<-1, 8192, 4830, 13077, 1410, -55>>>>,
      <<<<1, 14401, 11863, 13547, 1210, -52>>, <<-1, 12288, 6288, 14295, 1372, -55>>>>,
      <<<<1, 10705, 2150, 4256, 1205, -52>>, <<-1, 12288, 16136, 1976, 1335, -55>>>>,
      <<<<1, 15658, 8927, 12186, 1199, -52>>, <<-1, 0, 1864, 8901, 1297, -55>>>>,
      <<<<1, 7083, 10288, 4551, 1194, -52>>, <<-1, 0, 12812, 2219, 1260, -55>>>>,
      <<<<1, 13616, 82, 14118, 1188, -52>>, <<-1, 0, 11556, 14742, 1222, -55>>>>,
      <<<<1, 8693, 7518, 8101, 1183, -52>>, <<-1, 0, 657, 13641, 1185, -55>>>>,
      <<<<1, 15295, 11380, 2873, 1178, -52>>, <<-1, 8192, 8678, 15263, 1148, -55>>>>,
      <<<<1, 13757, 3647, 14808, 1172, -52>>, <<-1, 8192, 5298, 3202, 1112, -55>>>>,
      <<<<1, 2107, 11044, 11130, 1167, -52>>, <<-1, 8192, 8156, 10229, 1075, -55>>>>,
      <<<<1, 182, 11941, 8210, 1162, -52>>, <<-1, 8192, 10234, 3524, 1039, -55>>>>,
      <<<<1, 306, 6961, 6041, 1157, -52>>, <<-1, 0, 12590, 15323, 2005, -56>>>>,
      <<<<1, 15515, 14155, 4609, 1152, -52>>, <<-1, 0, 6401, 12425, 1933, -56>>>>,
      <<<<1, 2059, 9525, 3908, 1147, -52>>, <<-1, 0, 15333, 14723, 1861, -56>>>>,
      <<<<1, 9577, 2621, 3925, 1142, -52>>, <<-1, 8192, 15202, 5748, 1790, -56>>>>,
      <<<<1, 15996, 1373, 4657, 1137, -52>>, <<-1, 8192, 189, 1938, 1719, -56>>>>,
      <<<<1, 9961, 4908, 6087, 1132, -52>>, <<-1, 0, 7330, 3134, 1648, -56>>>>,
      <<<<1, 6838, 12464, 8208, 1127, -52>>, <<-1, 0, 3531, 9323, 1577, -56>>>>,
      <<<<1, 12477, 11993, 11015, 1122, -52>>, <<-1, 0, 3760, 4123, 1507, -56>>>>,
      <<<<1, 15542, 6078, 14498, 1117, -52>>, <<-1, 0, 5344, 3860, 1437, -56>>>>,
      <<<<1, 12762, 5424, 2259, 1113, -52>>, <<-1, 0, 13854, 8422, 1367, -56>>>>,
      <<<<1, 8157, 157, 7065, 1108, -52>>, <<-1, 8192, 14983, 1485, 1298, -56>>>>,
      <<<<1, 4684, 4299, 12522, 1103, -52>>, <<-1, 8192, 13738, 15764, 1228, -56>>>>,
      <<<<1, 14810, 2115, 2231, 1099, -52>>, <<-1, 8192, 8981, 1951, 1160, -56>>>>,
      <<<<1, 13617, 9138, 8962, 1094, -52>>, <<-1, 8192, 8584, 9321, 1091, -56>>>>,
      <<<<1, 13487, 10768, 16317, 1089, -52>>, <<-1, 0, 11080, 9926, 2046, -57>>>>,
      <<<<1, 11187, 15673, 7904, 1085, -52>>, <<-1, 0, 10717, 10452, 1910, -57>>>>,
      <<<<1, 8142, 13482, 101, 1081, -52>>, <<-1, 0, 4628, 3790, 1775, -57>>>>,
      <<<<1, 9505, 3250, 9286, 1076, -52>>, <<-1, 0, 75, 6292, 1640, -57>>>>,
      <<<<1, 6170, 13194, 2679, 1072, -52>>, <<-1, 0, 3083, 1411, 1506, -57>>>>,
      <<<<1, 14033, 3864, 13048, 1067, -52>>, <<-1, 0, 8026, 5606, 1372, -57>>>>,
      <<<<1, 4921, 8832, 7609, 1063, -52>>, <<-1, 0, 9622, 2212, 1239, -57>>>>,
      <<<<1, 10207, 15691, 2746, 1059, -52>>, <<-1, 0, 4181, 7734, 1106, -57>>>>,
      <<<<1, 10491, 15672, 14834, 1054, -52>>, <<-1, 0, 2990, 11272, 1948, -58>>>>,
      <<<<1, 3865, 12502, 11096, 1050, -52>>, <<-1, 0, 2378, 7957, 1685, -58>>>>,
      <<<<1, 14636, 6067, 7914, 1046, -52>>, <<-1, 0, 15878, 5676, 1423, -58>>>>,
      <<<<1, 11408, 14148, 5276, 1042, -52>>, <<-1, 0, 12968, 4024, 1162, -58>>>>,
      <<<<1, 11689, 7106, 3180, 1038, -52>>, <<-1, 0, 996, 6066, 1804, -59>>>>,
      <<<<1, 12969, 3556, 1617, 1034, -52>>, <<-1, 0, 13992, 4949, 1286, -59>>>>,
      <<<<1, 13128, 8105, 578, 1030, -52>>, <<-1, 0, 2992, 8252, 1540, -60>>>>,
      <<<<1, 12693, 6226, 64, 1026, -52>>, <<-1, 0, 9360, 151, 1025, -61>>>>,
      <<<<1, 14874, 7323, 511, 2040, -53>>, <<1, 0, 4672, 16184, 2043, -61>>>>,
      <<<<1, 10868, 2439, 4556, 2024, -53>>, <<1, 0, 5364, 1043, 1527, -59>>>>,
      <<<<1, 6446, 518, 12555, 2008, -53>>, <<1, 0, 4874, 10812, 1267, -58>>>>,
      <<<<1, 11725, 13242, 8035, 1993, -53>>, <<1, 0, 4644, 15377, 1767, -58>>>>,
      <<<<1, 5095, 3652, 7296, 1978, -53>>, <<1, 0, 14404, 3468, 1132, -57>>>>,
      <<<<1, 12715, 9006, 10247, 1963, -53>>, <<1, 0, 7, 9661, 1378, -57>>>>,
      <<<<1, 3227, 2676, 426, 1949, -53>>, <<1, 0, 866, 2100, 1623, -57>>>>,
      <<<<1, 6581, 3114, 10520, 1934, -53>>, <<1, 0, 15710, 13998, 1865, -57>>>>,
      <<<<1, 6742, 9602, 7680, 1920, -53>>, <<1, 0, 5731, 6542, 1053, -56>>>>,
      <<<<1, 15256, 5598, 8222, 1906, -53>>, <<1, 8192, 3124, 16222, 1172, -56>>>>,
      <<<<1, 4355, 11762, 12064, 1892, -53>>, <<1, 0, 11488, 11736, 1291, -56>>>>,
      <<<<1, 7374, 7149, 2758, 1879, -53>>, <<1, 0, 7519, 9624, 1409, -56>>>>,
      <<<<1, 7837, 10619, 13002, 1865, -53>>, <<1, 0, 5544, 10083, 1526, -56>>>>,
      <<<<1, 11469, 14764, 9955, 1852, -53>>, <<1, 8192, 14449, 13364, 1642, -56>>>>,
      <<<<1, 14594, 2717, 9946, 1839, -53>>, <<1, 8192, 11317, 3195, 1758, -56>>>>,
      <<<<1, 2157, 13532, 12902, 1826, -53>>, <<1, 8192, 2972, 12595, 1872, -56>>>>,
      <<<<1, 6148, 13685, 2379, 1814, -53>>, <<1, 8192, 1913, 8983, 1986, -56>>>>,
      <<<<1, 8076, 3822, 11091, 1801, -53>>, <<1, 0, 11845, 12626, 1049, -55>>>>,
      <<<<1, 10047, 15283, 6206, 1789, -53>>, <<1, 12288, 2634, 14424, 1105, -55>>>>,
      <<<<1, 5825, 5998, 4055, 1777, -53>>, <<1, 12288, 14120, 9964, 1161, -55>>>>,
      <<<<1, 2600, 12825, 4576, 1765, -53>>, <<1, 4096, 6933, 15738, 1216, -55>>>>,
      <<<<1, 15916, 6076, 7724, 1753, -53>>, <<1, 4096, 12492, 15411, 1271, -55>>>>,
      <<<<1, 2187, 7974, 13446, 1741, -53>>, <<1, 0, 11754, 9062, 1326, -55>>>>,
      <<<<1, 12362, 1140, 5298, 1730, -53>>, <<1, 12288, 9031, 13202, 1380, -55>>>>,
      <<<<1, 12158, 6091, 16008, 1718, -53>>, <<1, 12288, 4195, 11474, 1434, -55>>>>,
      <<<<1, 15778, 1408, 12755, 1707, -53>>, <<1, 4096, 12698, 3982, 1488, -55>>>>,
      <<<<1, 6311, 16205, 11875, 1696, -53>>, <<1, 12288, 5227, 7183, 1541, -55>>>>,
      <<<<1, 13195, 15397, 13326, 1685, -53>>, <<1, 0, 5082, 4757, 1594, -55>>>>,
      <<<<1, 2855, 685, 681, 1675, -53>>, <<1, 0, 3041, 13152, 1646, -55>>>>,
      <<<<1, 13009, 3663, 6657, 1664, -53>>, <<1, 0, 12464, 16081, 1698, -55>>>>,
      <<<<1, 15387, 4972, 14834, 1653, -53>>, <<1, 4096, 12295, 13589, 1750, -55>>>>,
      <<<<1, 12688, 5918, 8784, 1643, -53>>, <<1, 0, 13043, 5756, 1802, -55>>>>,
      <<<<1, 3631, 2655, 4847, 1633, -53>>, <<1, 8192, 5409, 9053, 1853, -55>>>>,
      <<<<1, 2933, 14993, 2990, 1623, -53>>, <<1, 0, 4379, 7123, 1904, -55>>>>,
      <<<<1, 2104, 14237, 3177, 1613, -53>>, <<1, 8192, 9023, 27, 1955, -55>>>>,
      <<<<1, 4838, 15773, 5362, 1603, -53>>, <<1, 4096, 94, 4252, 2005, -55>>>>,
      <<<<1, 6045, 15359, 9512, 1593, -53>>, <<1, 14336, 2174, 9921, 1027, -54>>>>,
      <<<<1, 124, 16176, 15593, 1583, -53>>, <<1, 4096, 14927, 7040, 1052, -54>>>>,
      <<<<1, 782, 11003, 7181, 1574, -53>>, <<1, 12288, 14873, 1721, 1077, -54>>>>,
      <<<<1, 6139, 10380, 634, 1565, -53>>, <<1, 4096, 3375, 10355, 1101, -54>>>>,
      <<<<1, 6664, 13006, 12298, 1555, -53>>, <<1, 2048, 7309, 214, 1126, -54>>>>,
      <<<<1, 15957, 8596, 9374, 1546, -53>>, <<1, 0, 818, 4094, 1150, -54>>>>,
      <<<<1, 608, 6096, 8217, 1537, -53>>, <<1, 10240, 7565, 5629, 1174, -54>>>>,
      <<<<1, 9001, 3970, 8790, 1528, -53>>, <<1, 10240, 9298, 4864, 1198, -54>>>>,
      <<<<1, 13741, 8050, 11063, 1519, -53>>, <<1, 8192, 269, 1825, 1222, -54>>>>,
      <<<<1, 9666, 7772, 15014, 1510, -53>>, <<1, 6144, 14256, 12902, 1245, -54>>>>,
      <<<<1, 1623, 2140, 4223, 1502, -53>>, <<1, 12288, 11964, 5375, 1269, -54>>>>,
      <<<<1, 4876, 12120, 11437, 1493, -53>>, <<1, 8192, 3263, 12014, 1292, -54>>>>>>

\* log(x) = log1p(r) + ln c + k * ln 2 with r = z / c - 1, from the
\* registers kd, z, invc and logc
log_prog ==
    <<<<"w", "fma", "kd", "Ln2hi", "logc">>,           \* w = kd * Ln2hi + logc
      <<"r", "fma", "z", "invc", "m1">>,               \* r = fma(z, invc, -1.0)
      <<"q", "fma", "r", "A2", "A1">>,                 \* A[1] + r * A[2]
      <<"hi", "add", "w", "r">>,                       \* hi = w + r
      <<"r2", "mul", "r", "r">>,                       \* r2 = r * r
      <<"d", "sub", "w", "hi">>,                       \* w - hi
      <<"d", "add", "d", "r">>,                        \* w - hi + r
      <<"lo", "fma", "kd", "Ln2lo", "d">>,             \* lo = w - hi + r + kd * Ln2lo
      <<"r3", "mul", "r", "r2">>,                      \* r * r2
      <<"p", "fma", "r", "A4", "A3">>,                 \* A[3] + r * A[4]
      <<"s", "fma", "r2", "A0", "lo">>,                \* lo + r2 * A[0]
      <<"p", "fma", "p", "r2", "q">>,                  \* A[1] + r * A[2] + r2 * (A[3] + r * A[4])
      <<"t", "fma", "r3", "p", "s">>,                  \* lo + r2 * A[0] + r * r2 * (...)
      <<"y", "add", "t", "hi">>>>                      \* y = ... + hi

\* log(x) for x next to 1, from the register x
log1_prog ==
    <<<<"r", "sub", "x", "one">>,                      \* r = x - 1.0
      <<"p2", "fma", "r", "B2", "B1">>,                \* B[1] + r * B[2]
      <<"p3", "fma", "r", "B5", "B4">>,                \* B[4] + r * B[5]
      <<"p5", "fma", "r", "B8", "B7">>,                \* B[7] + r * B[8]
      <<"r2", "mul", "r", "r">>,                       \* r2 = r * r
      <<"p2", "fma", "r2", "B3", "p2">>,               \* B[1] + r * B[2] + r2 * B[3]
      <<"p3", "fma", "r2", "B6", "p3">>,               \* B[4] + r * B[5] + r2 * B[6]
      <<"r3", "mul", "r", "r2">>,                      \* r3 = r * r2
      <<"p1", "fma", "r2", "B9", "p5">>,               \* B[7] + r * B[8] + r2 * B[9]
      <<"p1", "fma", "r3", "B10", "p1">>,              \* ... + r3 * B[10]
      <<"p1", "fma", "p1", "r3", "p3">>,               \* B[4] + ... + r3 * (B[7] + ...)
      <<"p1", "fma", "p1", "r3", "p2">>,               \* B[1] + ... + r3 * (B[4] + ...)
      <<"t", "fma", "r", "p27", "r">>,                 \* r + r * 0x1p27
      <<"rhi", "fma", "m27", "r", "t">>,               \* rhi = r + r * 0x1p27 - r * 0x1p27
      <<"rhi2", "mul", "rhi", "rhi">>,                 \* rhi2 = rhi * rhi
      <<"rlo", "sub", "r", "rhi">>,                    \* rlo = r - rhi
      <<"hi", "fma", "rhi2", "B0", "r">>,              \* hi = r + rhi2 * B[0]
      <<"d", "sub", "r", "hi">>,                       \* r - hi
      <<"s", "add", "r", "rhi">>,                      \* rhi + r
      <<"lo", "fma", "rhi2", "B0", "d">>,              \* lo = r - hi + rhi2 * B[0]
      <<"u", "mul", "B0", "rlo">>,                     \* B[0] * rlo
      <<"lo", "fma", "u", "s", "lo">>,                 \* lo += B[0] * rlo * (rhi + r)
      <<"y", "fma", "p1", "r3", "lo">>,                \* y = r3 * (B[1] + ...) + lo
      <<"y", "add", "hi", "y">>>>                      \* y += hi

\* math.log(x), lines 11-12, for a double x > 0: the branch for
\* 1 - 0x1p-4 <= x < 1 + 0x1.09p-4, or the table of the interval of
\* z = x / 2^k in [0.6875, 1.375)
log_table(s) ==
    LET tab == log_tab[s.i + 1]
    IN  run(("kd" :> to_double(s.k) @@ "z" :> s.z @@
             "invc" :> Dbl(tab[1]) @@ "logc" :> Dbl(tab[2]))
                @@ registers(log_data),
            log_prog)["y"]

math_log(x) ==
    IF ~Less(x, Dbl(<<1, 0, 0, 0, 1920, -53>>)) /\ Less(x, Dbl(<<1, 0, 0, 4096, 1090, -52>>))
    THEN IF x = One THEN Zero
         ELSE run(("x" :> x) @@ registers(log1_data), log1_prog)["y"]
    ELSE CHOOSE r \in {log_table(s) : s \in {reduce(x, BigShlBits(Big(6), 48))}} : TRUE

(***************************************************************************)
(* exp: __exp of sysdeps/ieee754/dbl-64/e_exp.c and its data, and the      *)
(* exp_inline of e_pow.c, which takes the argument in two parts            *)
(***************************************************************************)
\* 128 / ln 2, the shift 0x1.8p52 that rounds to an integer, -ln 2 / 128 in
\* two parts, and the polynomial C of exp(r) - 1 - r
exp_data ==
    ("InvLn2N" :> <<1, 766, 5294, 5238, 1477, -45>> @@
     "Shift" :> <<1, 0, 0, 0, 1536, 0>> @@
     "NegLn2hiN" :> <<-1, 0, 15336, 9263, 1419, -60>> @@
     "NegLn2loN" :> <<-1, 15162, 12920, 14763, 1853, -99>> @@
     "C2" :> <<1, 15805, 16383, 16383, 2047, -54>> @@
     "C3" :> <<1, 5180, 5461, 5461, 1365, -55>> @@
     "C4" :> <<1, 11153, 15452, 5468, 1365, -57>> @@
     "C5" :> <<1, 4119, 7827, 4374, 1092, -59>>)

\* <<tail, scale>> for j in 0 .. 127: scale + tail is 2^(j/128)
exp_tab ==
    <<<<<<1, 0, 0, 0, 0, 0>>, <<1, 0, 0, 0, 1024, -52>>>>,
      <<<<1, 16238, 10786, 13553, 1742, -106>>, <<1, 13109, 10220, 9178, 1029, -52>>>>,
      <<<<-1, 7261, 13155, 313, 1112, -108>>, <<1, 97, 14814, 2467, 1035, -52>>>>,
      <<<<-1, 9937, 541, 10145, 1047, -106>>, <<1, 16261, 8633, 12638, 1040, -52>>>>,
      <<<<1, 13843, 5535, 9507, 1844, -107>>, <<1, 1396, 3158, 6925, 1046, -52>>>>,
      <<<<-1, 3834, 4070, 10242, 1779, -107>>, <<1, 14046, 10103, 1714, 1052, -52>>>>,
      <<<<1, 2145, 1947, 13542, 1085, -109>>, <<1, 7112, 8662, 13393, 1057, -52>>>>,
      <<<<1, 5017, 11471, 15941, 1064, -106>>, <<1, 13187, 11035, 9196, 1063, -52>>>>,
      <<<<1, 15213, 13837, 10853, 1510, -106>>, <<1, 2319, 13286, 5510, 1069, -52>>>>,
      <<<<1, 12284, 3063, 4521, 1965, -107>>, <<1, 2039, 11721, 2338, 1075, -52>>>>,
      <<<<1, 7377, 190, 9175, 1967, -112>>, <<1, 4514, 2895, 16067, 1080, -52>>>>,
      <<<<-1, 11787, 9793, 13128, 1664, -109>>, <<1, 4891, 16379, 13930, 1086, -52>>>>,
      <<<<-1, 15630, 10430, 9506, 1365, -106>>, <<1, 6993, 73, 12317, 1092, -52>>>>,
      <<<<-1, 10837, 12603, 3832, 1056, -110>>, <<1, 12748, 432, 11228, 1098, -52>>>>,
      <<<<-1, 13334, 10071, 4667, 1138, -106>>, <<1, 11744, 15012, 10666, 1104, -52>>>>,
      <<<<1, 5551, 9585, 15934, 1076, -107>>, <<1, 3665, 8854, 10636, 1110, -52>>>>,
      <<<<-1, 4936, 10902, 12638, 1030, -107>>, <<1, 4475, 12789, 11139, 1116, -52>>>>,
      <<<<-1, 12861, 6008, 16133, 1991, -107>>, <<1, 3562, 8754, 12179, 1122, -52>>>>,
      <<<<1, 5055, 15437, 6339, 1762, -107>>, <<1, 2933, 11711, 13758, 1128, -52>>>>,
      <<<<-1, 11046, 6215, 6599, 1462, -106>>, <<1, 7380, 4113, 15880, 1134, -52>>>>,
      <<<<1, 12128, 14568, 3955, 1723, -106>>, <<1, 14762, 1442, 2163, 1141, -52>>>>,
      <<<<-1, 14493, 11800, 14380, 2041, -107>>, <<1, 6429, 3059, 5378, 1147, -52>>>>,
      <<<<1, 909, 4763, 13332, 1691, -107>>, <<1, 3286, 8586, 9144, 1153, -52>>>>,
      <<<<1, 1149, 912, 8283, 1054, -107>>, <<1, 7318, 1527, 13465, 1159, -52>>>>,
      <<<<1, 10388, 3746, 12254, 1443, -106>>, <<1, 8760, 14805, 1958, 1166, -52>>>>,
      <<<<1, 2173, 2513, 8591, 1495, -107>>, <<1, 9791, 16074, 7396, 1172, -52>>>>,
      <<<<1, 10226, 8319, 12985, 1041, -107>>, <<1, 15581, 6025, 13398, 1178, -52>>>>,
      <<<<-1, 2142, 15812, 1971, 1454, -106>>, <<1, 9089, 2005, 3582, 1185, -52>>>>,
      <<<<1, 11057, 13350, 15894, 1213, -107>>, <<1, 7905, 5247, 10719, 1191, -52>>>>,
      <<<<-1, 16378, 10686, 6577, 1864, -112>>, <<1, 6544, 875, 2045, 1198, -52>>>>,
      <<<<1, 2740, 2096, 14375, 1741, -107>>, <<1, 779, 7056, 10330, 1204, -52>>>>,
      <<<<1, 2959, 10043, 2344, 1925, -109>>, <<1, 12118, 9464, 2810, 1211, -52>>>>,
      <<<<1, 11190, 14018, 5972, 1235, -107>>, <<1, 14101, 10438, 12256, 1217, -52>>>>,
      <<<<1, 13388, 2737, 8222, 1424, -107>>, <<1, 6193, 12595, 5903, 1224, -52>>>>,
      <<<<1, 14410, 14159, 5013, 2039, -107>>, <<1, 5887, 2448, 139, 1231, -52>>>>,
      <<<<-1, 6916, 11833, 14339, 1448, -107>>, <<1, 8177, 15946, 11349, 1237, -52>>>>,
      <<<<-1, 4200, 12589, 11996, 1170, -106>>, <<1, 10699, 7402, 6771, 1244, -52>>>>,
      <<<<-1, 11662, 11588, 16257, 1601, -106>>, <<1, 6246, 13335, 2790, 1251, -52>>>>,
      <<<<-1, 14034, 14928, 7811, 1140, -108>>, <<1, 8183, 5014, 15795, 1257, -52>>>>,
      <<<<-1, 6933, 3896, 4507, 1606, -106>>, <<1, 10469, 3150, 13020, 1264, -52>>>>,
      <<<<1, 3181, 7337, 13450, 1383, -107>>, <<1, 13346, 12360, 10852, 1271, -52>>>>,
      <<<<-1, 10634, 10401, 9735, 1220, -106>>, <<1, 28, 4786, 9296, 1278, -52>>>>,
      <<<<-1, 2395, 8286, 14580, 1577, -110>>, <<1, 11818, 2012, 8354, 1285, -52>>>>,
      <<<<-1, 6683, 7462, 2486, 1803, -108>>, <<1, 10391, 9538, 8029, 1292, -52>>>>,
      <<<<1, 11281, 778, 16086, 1240, -111>>, <<1, 2349, 390, 8326, 1299, -52>>>>,
      <<<<1, 9455, 11289, 8339, 1433, -106>>, <<1, 87, 13428, 9246, 1306, -52>>>>,
      <<<<1, 889, 10884, 3613, 1971, -109>>, <<1, 15568, 5892, 10795, 1313, -52>>>>,
      <<<<1, 4656, 15420, 14563, 1279, -106>>, <<1, 5086, 863, 12975, 1320, -52>>>>,
      <<<<1, 12208, 11754, 3307, 1444, -108>>, <<1, 10791, 5336, 15789, 1327, -52>>>>,
      <<<<1, 8311, 11603, 7134, 1223, -106>>, <<1, 7437, 10231, 2857, 1335, -52>>>>,
      <<<<-1, 9102, 454, 832, 2021, -107>>, <<1, 11431, 6772, 6951, 1342, -52>>>>,
      <<<<-1, 9033, 12878, 11469, 1527, -107>>, <<1, 9794, 2877, 11690, 1349, -52>>>>,
      <<<<-1, 14431, 13372, 11371, 1591, -108>>, <<1, 3970, 6773, 693, 1357, -52>>>>,
      <<<<-1, 7414, 12781, 9326, 1412, -107>>, <<1, 4623, 10614, 6732, 1364, -52>>>>,
      <<<<1, 6030, 9207, 4177, 1229, -106>>, <<1, 10202, 6868, 13427, 1371, -52>>>>,
      <<<<1, 6917, 15914, 2930, 1766, -108>>, <<1, 2045, 4703, 4397, 1379, -52>>>>,
      <<<<1, 5129, 2161, 15902, 1048, -106>>, <<1, 5161, 13601, 12413, 1386, -52>>>>,
      <<<<1, 1770, 103, 14421, 1329, -112>>, <<1, 1719, 10597, 4712, 1394, -52>>>>,
      <<<<1, 53, 11667, 11874, 1292, -106>>, <<1, 8520, 5812, 14065, 1401, -52>>>>,
      <<<<-1, 13983, 1637, 1190, 1849, -107>>, <<1, 7177, 9691, 7707, 1409, -52>>>>,
      <<<<-1, 3496, 12221, 15443, 1804, -107>>, <<1, 5509, 233, 2027, 1417, -52>>>>,
      <<<<-1, 10670, 9391, 14216, 1300, -107>>, <<1, 800, 4915, 13411, 1424, -52>>>>,
      <<<<-1, 6232, 8537, 11735, 1267, -106>>, <<1, 8741, 2388, 9096, 1432, -52>>>>,
      <<<<1, 6500, 504, 2728, 1476, -110>>, <<1, 10611, 4402, 5469, 1440, -52>>>>,
      <<<<-1, 8744, 15736, 16123, 1260, -106>>, <<1, 15309, 6652, 2534, 1448, -52>>>>,
      <<<<-1, 14722, 7378, 10968, 1668, -109>>, <<1, 6847, 5167, 295, 1456, -52>>>>,
      <<<<-1, 10734, 8630, 16123, 1241, -109>>, <<1, 6703, 12692, 15139, 1463, -52>>>>,
      <<<<-1, 2129, 4994, 981, 1079, -107>>, <<1, 5252, 9542, 14303, 1471, -52>>>>,
      <<<<-1, 16079, 14696, 13895, 1543, -108>>, <<1, 8052, 9137, 14174, 1479, -52>>>>,
      <<<<-1, 15792, 557, 9388, 1467, -107>>, <<1, 372, 8854, 14756, 1487, -52>>>>,
      <<<<-1, 9866, 14679, 4897, 1414, -107>>, <<1, 10185, 6409, 16053, 1495, -52>>>>,
      <<<<1, 5331, 14375, 3253, 1063, -106>>, <<1, 7487, 16249, 1684, 1504, -52>>>>,
      <<<<-1, 9501, 9526, 11723, 1740, -108>>, <<1, 391, 4012, 4423, 1512, -52>>>>,
      <<<<1, 107, 4511, 4053, 1339, -106>>, <<1, 306, 1219, 7888, 1520, -52>>>>,
      <<<<1, 11349, 12121, 15898, 1402, -109>>, <<1, 3682, 6973, 12083, 1528, -52>>>>,
      <<<<-1, 3906, 16079, 7250, 1576, -107>>, <<1, 6674, 4344, 629, 1537, -52>>>>,
      <<<<-1, 14132, 1260, 7023, 1242, -106>>, <<1, 3603, 9523, 6297, 1545, -52>>>>,
      <<<<-1, 16158, 10343, 10307, 1047, -107>>, <<1, 1965, 6287, 12708, 1553, -52>>>>,
      <<<<-1, 5998, 8649, 1293, 1333, -106>>, <<1, 4845, 11538, 3481, 1562, -52>>>>,
      <<<<1, 2560, 11322, 5749, 1067, -106>>, <<1, 9881, 9769, 11389, 1570, -52>>>>,
      <<<<1, 10932, 1987, 13052, 1901, -107>>, <<1, 8411, 2218, 3668, 1579, -52>>>>,
      <<<<-1, 10239, 13079, 9737, 1389, -109>>, <<1, 1164, 6869, 13089, 1587, -52>>>>,
      <<<<1, 8004, 10189, 10293, 1789, -108>>, <<1, 14134, 9301, 6889, 1596, -52>>>>,
      <<<<-1, 15747, 7288, 4602, 1218, -106>>, <<1, 16326, 11847, 1456, 1605, -52>>>>,
      <<<<-1, 7721, 11696, 7048, 1898, -110>>, <<1, 1509, 823, 13179, 1613, -52>>>>,
      <<<<-1, 14681, 12866, 16279, 1800, -109>>, <<1, 4623, 12065, 9292, 1622, -52>>>>,
      <<<<-1, 14762, 3027, 13362, 1168, -106>>, <<1, 3664, 16249, 6185, 1631, -52>>>>,
      <<<<-1, 3659, 7578, 9933, 1394, -107>>, <<1, 1978, 808, 3863, 1640, -52>>>>,
      <<<<1, 3623, 11847, 16322, 1131, -108>>, <<1, 12432, 2703, 2328, 1649, -52>>>>,
      <<<<1, 13243, 1065, 9054, 1908, -109>>, <<1, 8995, 10124, 1585, 1658, -52>>>>,
      <<<<-1, 8803, 2440, 4162, 1521, -107>>, <<1, 9573, 11639, 1639, 1667, -52>>>>,
      <<<<1, 12757, 3976, 2158, 1735, -107>>, <<1, 11571, 12584, 2494, 1676, -52>>>>,
      <<<<-1, 15125, 3826, 15645, 1134, -106>>, <<1, 9565, 2296, 4155, 1685, -52>>>>,
      <<<<1, 12754, 13240, 793, 1075, -106>>, <<1, 13144, 3266, 6625, 1694, -52>>>>,
      <<<<1, 6835, 14797, 6214, 1306, -107>>, <<1, 15807, 5607, 9909, 1703, -52>>>>,
      <<<<-1, 7604, 7738, 15577, 1207, -107>>, <<1, 13178, 16207, 14011, 1712, -52>>>>,
      <<<<1, 13191, 2860, 10105, 1798, -107>>, <<1, 5037, 9579, 2553, 1722, -52>>>>,
      <<<<-1, 6650, 11079, 14580, 1054, -106>>, <<1, 13926, 9782, 8306, 1731, -52>>>>,
      <<<<-1, 11962, 7026, 15765, 1392, -110>>, <<1, 5627, 8508, 14891, 1740, -52>>>>,
      <<<<-1, 13888, 13979, 227, 1065, -106>>, <<1, 6458, 14229, 5928, 1750, -52>>>>,
      <<<<-1, 4916, 8886, 12099, 1589, -109>>, <<1, 7751, 3053, 14191, 1759, -52>>>>,
      <<<<-1, 2613, 11618, 11814, 1147, -106>>, <<1, 1610, 644, 6915, 1769, -52>>>>,
      <<<<1, 7629, 10623, 15728, 1343, -108>>, <<1, 466, 303, 489, 1779, -52>>>>,
      <<<<-1, 6316, 10826, 8127, 1135, -106>>, <<1, 7689, 12124, 11301, 1788, -52>>>>,
      <<<<1, 3251, 700, 10979, 1243, -108>>, <<1, 4764, 13845, 6589, 1798, -52>>>>,
      <<<<1, 15764, 12927, 13093, 1976, -107>>, <<1, 4218, 16383, 2741, 1808, -52>>>>,
      <<<<1, 6572, 1061, 2301, 1336, -107>>, <<1, 4427, 14687, 16146, 1817, -52>>>>,
      <<<<1, 6759, 8504, 6899, 1267, -109>>, <<1, 10165, 4123, 14041, 1827, -52>>>>,
      <<<<1, 6504, 12872, 12998, 1498, -109>>, <<1, 4201, 13246, 12813, 1837, -52>>>>,
      <<<<-1, 13778, 3890, 8584, 1058, -107>>, <<1, 1018, 5495, 12469, 1847, -52>>>>,
      <<<<-1, 14959, 16383, 5587, 2027, -107>>, <<1, 2428, 10270, 13012, 1857, -52>>>>,
      <<<<-1, 10569, 8662, 6883, 1027, -106>>, <<1, 2546, 8246, 14448, 1867, -52>>>>,
      <<<<1, 1959, 6388, 14426, 1320, -108>>, <<1, 9351, 13294, 397, 1878, -52>>>>,
      <<<<-1, 8719, 256, 6626, 1188, -107>>, <<1, 920, 6950, 3633, 1888, -52>>>>,
      <<<<1, 4780, 5894, 9485, 1942, -107>>, <<1, 12933, 3948, 7776, 1898, -52>>>>,
      <<<<1, 11083, 12293, 9626, 1294, -107>>, <<1, 13408, 3078, 12831, 1908, -52>>>>,
      <<<<-1, 15903, 7888, 4624, 1205, -107>>, <<1, 7007, 3566, 2419, 1919, -52>>>>,
      <<<<-1, 3529, 11548, 11155, 1610, -107>>, <<1, 8489, 5078, 9313, 1929, -52>>>>,
      <<<<1, 2259, 234, 8262, 1325, -108>>, <<1, 16374, 7724, 750, 1940, -52>>>>,
      <<<<1, 12913, 1653, 7877, 1265, -107>>, <<1, 3203, 12061, 9503, 1950, -52>>>>,
      <<<<-1, 4592, 16206, 12584, 2045, -107>>, <<1, 4314, 2706, 2810, 1961, -52>>>>,
      <<<<-1, 13437, 2189, 10638, 1899, -107>>, <<1, 10225, 13881, 13442, 1971, -52>>>>,
      <<<<1, 8200, 1704, 15300, 1968, -107>>, <<1, 6695, 14725, 8638, 1982, -52>>>>,
      <<<<1, 11058, 3751, 14668, 1290, -107>>, <<1, 14999, 7598, 4787, 1993, -52>>>>,
      <<<<1, 1518, 1862, 2707, 1689, -107>>, <<1, 1344, 11705, 1893, 2004, -52>>>>,
      <<<<-1, 9197, 4335, 15278, 1933, -107>>, <<1, 15892, 13938, 16346, 2014, -52>>>>,
      <<<<1, 3485, 13895, 5044, 1506, -108>>, <<1, 4312, 1658, 15384, 2025, -52>>>>,
      <<<<1, 3209, 1411, 7188, 1217, -110>>, <<1, 12785, 11837, 15394, 2036, -52>>>>>>

\* exp(x) = 2^(k/128) * exp(r): kd = round(x * 128 / ln 2) and
\* r = x - kd * ln 2 / 128
exp_reduce ==
    <<<<"kd", "fma", "x", "InvLn2N", "Shift">>,        \* kd = InvLn2N * x + Shift
      <<"kd", "sub", "kd", "Shift">>,                  \* kd -= Shift
      <<"r", "fma", "kd", "NegLn2hiN", "x">>,          \* x + kd * NegLn2hiN
      <<"r", "fma", "kd", "NegLn2loN", "r">>>>         \* r = x + kd * NegLn2hiN + kd * NegLn2loN

\* the second part of the argument, in pow
exp_tail ==
    <<<<"r", "add", "xtail", "r">>>>                   \* r += xtail

\* scale * (1 + tail + exp(r) - 1), from the registers r, tail and scale
exp_poly ==
    <<<<"q", "fma", "r", "C3", "C2">>,                 \* C2 + r * C3
      <<"t", "add", "r", "tail">>,                     \* tail + r
      <<"r2", "mul", "r", "r">>,                       \* r2 = r * r
      <<"p", "fma", "r", "C5", "C4">>,                 \* C4 + r * C5
      <<"q", "fma", "q", "r2", "t">>,                  \* tail + r + r2 * (C2 + r * C3)
      <<"r4", "mul", "r2", "r2">>,                     \* r2 * r2
      <<"tmp", "fma", "r4", "p", "q">>,                \* tmp = ... + r2 * r2 * (C4 + r * C5)
      <<"y", "fma", "scale", "tmp", "scale">>>>        \* scale + scale * tmp

\* the last step for x <= -512, where the product is rounded on its own
exp_under ==
    <<<<"u", "mul", "scale", "tmp">>,                  \* scale * tmp
      <<"y", "add", "scale", "u">>>>                   \* y = scale + scale * tmp

\* scale * (1 + tmp) for the registers after the reduction and ki, the
\* integer of kd: scale is 2^(ki / 128) from the table.  From 512 on the
\* library computes at a smaller exponent and multiplies by 2^1009 at the
\* end; the result is beyond the doubles when that product is.
exp_scaled(top, regs, ki) ==
    LET j    == ki % 128
        tab  == exp_tab[j + 1]
        poly == IF top = 9 /\ ki < 0 THEN exp_poly \o exp_under ELSE exp_poly
    IN  CHOOSE r \in
            {IF y.exp + 52 >= 1024 THEN Infinity ELSE y
             : y \in {run(("tail" :> Dbl(tab[1]) @@
                           "scale" :> [Dbl(tab[2]) EXCEPT
                                          !.exp = @ + (ki - j) \div 128])
                             @@ regs,
                          poly)["y"]}} : TRUE

\* exp(x + xtail): 1 + x below 2^-54, beyond the doubles from 1024 on
exp_inline(x, xtail, reduction) ==
    LET top == x.exp + 52
    IN  IF x.man = <<>> \/ top < -54 THEN fadd(One, x)
        ELSE IF top > 9 THEN (IF x.neg THEN Zero ELSE Infinity)
        ELSE CHOOSE r \in
                 {exp_scaled(top, regs, to_int(regs["kd"]))
                  : regs \in {run(("x" :> x @@ "xtail" :> xtail)
                                     @@ registers(exp_data),
                                  reduction)}} : TRUE

\* math.exp(x), line 14: OverflowError when the result is beyond the doubles
math_exp(x) ==
    CHOOSE r \in
        {IF y = Infinity THEN [kind |-> "OverflowError", v |-> Zero]
         ELSE [kind |-> "value", v |-> y]
         : y \in {exp_inline(x, Zero, exp_reduce)}} : TRUE

(***************************************************************************)
(* pow: __pow of sysdeps/ieee754/dbl-64/e_pow.c and its data               *)
(***************************************************************************)
\* ln 2 in two parts, the polynomial A of log1p(r) - r, and -1.0
pow_data ==
    ("Ln2hi" :> <<1, 14336, 15336, 9263, 1419, -53>> @@
     "Ln2lo" :> <<1, 10032, 3869, 13689, 1980, -97>> @@
     "m1" :> <<-1, 0, 0, 0, 1024, -52>> @@
     "A0" :> <<-1, 0, 0, 0, 1024, -53>> @@
     "A1" :> <<-1, 5472, 5461, 5461, 1365, -53>> @@
     "A2" :> <<1, 6, 0, 0, 1024, -53>> @@
     "A3" :> <<1, 5454, 9573, 6553, 1638, -53>> @@
     "A4" :> <<-1, 9338, 5286, 5461, 1365, -53>> @@
     "A5" :> <<-1, 1513, 11553, 5561, 1170, -52>> @@
     "A6" :> <<1, 16323, 11416, 696, 1024, -52>>)

\* <<invc, logc, logctail>> for each of the 128 intervals of z
pow_tab ==
    <<<<<<1, 0, 0, 0, 1448, -52>>, <<-1, 2048, 2791, 2095, 1419, -54>>, <<1, 5760, 8413, 578, 1709, -100>>>>,
      <<<<1, 0, 0, 0, 1440, -52>>, <<-1, 2048, 15712, 7131, 1396, -54>>, <<-1, 14112, 9091, 4237, 1833, -98>>>>,
      <<<<1, 0, 0, 0, 1432, -52>>, <<-1, 6144, 7445, 10097, 1373, -54>>, <<-1, 4205, 5849, 10829, 1240, -97>>>>,
      <<<<1, 0, 0, 0, 1424, -52>>, <<-1, 14336, 7351, 10968, 1350, -54>>, <<-1, 10197, 15041, 3657, 1441, -101>>>>,
      <<<<1, 0, 0, 0, 1416, -52>>, <<-1, 14336, 5597, 9721, 1327, -54>>, <<-1, 16096, 3236, 13977, 1286, -99>>>>,
      <<<<1, 0, 0, 0, 1408, -52>>, <<-1, 8192, 2161, 6332, 1304, -54>>, <<1, 1228, 8498, 756, 1270, -98>>>>,
      <<<<1, 0, 0, 0, 1400, -52>>, <<-1, 10240, 6682, 776, 1281, -54>>, <<1, 2874, 13832, 12094, 1808, -102>>>>,
      <<<<1, 0, 0, 0, 1392, -52>>, <<-1, 2048, 5541, 9413, 1257, -54>>, <<1, 5216, 6470, 7272, 1068, -97>>>>,
      <<<<1, 0, 0, 0, 1384, -52>>, <<-1, 0, 10850, 15833, 1233, -54>>, <<1, 146, 4886, 5341, 1366, -97>>>>,
      <<<<1, 0, 0, 0, 1376, -52>>, <<-1, 8192, 11140, 3627, 1210, -54>>, <<1, 11224, 9948, 12777, 1438, -97>>>>,
      <<<<1, 0, 0, 0, 1368, -52>>, <<-1, 2048, 3962, 5537, 1186, -54>>, <<1, 12351, 6974, 8523, 1394, -98>>>>,
      <<<<1, 0, 0, 0, 1368, -52>>, <<-1, 2048, 3962, 5537, 1186, -54>>, <<1, 12351, 6974, 8523, 1394, -98>>>>,
      <<<<1, 0, 0, 0, 1360, -52>>, <<-1, 14336, 12093, 5151, 1162, -54>>, <<-1, 6774, 8527, 8770, 1430, -98>>>>,
      <<<<1, 0, 0, 0, 1352, -52>>, <<-1, 6144, 1446, 2444, 1138, -54>>, <<-1, 5124, 9117, 15302, 2027, -98>>>>,
      <<<<1, 0, 0, 0, 1344, -52>>, <<-1, 10240, 11950, 13770, 1113, -54>>, <<1, 10480, 3594, 15459, 1991, -98>>>>,
      <<<<1, 0, 0, 0, 1336, -52>>, <<-1, 2048, 9913, 6335, 1089, -54>>, <<-1, 6758, 13333, 3151, 1450, -97>>>>,
      <<<<1, 0, 0, 0, 1328, -52>>, <<-1, 4096, 2510, 12878, 1064, -54>>, <<-1, 782, 15312, 16103, 1818, -99>>>>,
      <<<<1, 0, 0, 0, 1320, -52>>, <<-1, 4096, 4819, 601, 1040, -54>>, <<-1, 11647, 15312, 11145, 1037, -100>>>>,
      <<<<1, 0, 0, 0, 1320, -52>>, <<-1, 4096, 4819, 601, 1040, -54>>, <<-1, 11647, 15312, 11145, 1037, -100>>>>,
      <<<<1, 0, 0, 0, 1312, -52>>, <<-1, 0, 13689, 4486, 2030, -55>>, <<1, 15495, 11876, 12970, 1877, -99>>>>,
      <<<<1, 0, 0, 0, 1304, -52>>, <<-1, 8192, 12145, 2780, 1980, -55>>, <<1, 12068, 12826, 11129, 1737, -97>>>>,
      <<<<1, 0, 0, 0, 1296, -52>>, <<-1, 12288, 14507, 12406, 1929, -55>>, <<-1, 16144, 4351, 13557, 1483, -98>>>>,
      <<<<1, 0, 0, 0, 1288, -52>>, <<-1, 0, 11583, 534, 1879, -55>>, <<1, 10267, 12073, 10523, 1134, -97>>>>,
      <<<<1, 0, 0, 0, 1280, -52>>, <<-1, 8192, 7786, 16252, 1827, -55>>, <<1, 1076, 8830, 5366, 1502, -97>>>>,
      <<<<1, 0, 0, 0, 1280, -52>>, <<-1, 8192, 7786, 16252, 1827, -55>>, <<1, 1076, 8830, 5366, 1502, -97>>>>,
      <<<<1, 0, 0, 0, 1272, -52>>, <<-1, 4096, 4278, 10343, 1776, -55>>, <<1, 14223, 1582, 11011, 1619, -98>>>>,
      <<<<1, 0, 0, 0, 1264, -52>>, <<-1, 0, 14851, 15508, 1724, -55>>, <<1, 4198, 16182, 9779, 1683, -104>>>>,
      <<<<1, 0, 0, 0, 1256, -52>>, <<-1, 12288, 16266, 15297, 1672, -55>>, <<-1, 490, 12571, 1613, 1379, -97>>>>,
      <<<<1, 0, 0, 0, 1256, -52>>, <<-1, 12288, 16266, 15297, 1672, -55>>, <<-1, 490, 12571, 1613, 1379, -97>>>>,
      <<<<1, 0, 0, 0, 1248, -52>>, <<-1, 4096, 13265, 9641, 1620, -55>>, <<-1, 5347, 4871, 7568, 1716, -97>>>>,
      <<<<1, 0, 0, 0, 1240, -52>>, <<-1, 4096, 5251, 14854, 1567, -55>>, <<1, 14857, 16239, 7159, 1775, -97>>>>,
      <<<<1, 0, 0, 0, 1232, -52>>, <<-1, 8192, 2115, 14480, 1514, -55>>, <<1, 2648, 2381, 14599, 1782, -97>>>>,
      <<<<1, 0, 0, 0, 1232, -52>>, <<-1, 8192, 2115, 14480, 1514, -55>>, <<1, 2648, 2381, 14599, 1782, -97>>>>,
      <<<<1, 0, 0, 0, 1224, -52>>, <<-1, 4096, 7271, 8446, 1461, -55>>, <<-1, 8806, 3787, 1706, 1081, -98>>>>,
      <<<<1, 0, 0, 0, 1216, -52>>, <<-1, 4096, 670, 13063, 1407, -55>>, <<-1, 4153, 15425, 9273, 1959, -98>>>>,
      <<<<1, 0, 0, 0, 1216, -52>>, <<-1, 4096, 670, 13063, 1407, -55>>, <<-1, 4153, 15425, 9273, 1959, -98>>>>,
      <<<<1, 0, 0, 0, 1208, -52>>, <<-1, 12288, 3718, 11870, 1353, -55>>, <<-1, 7055, 29, 10425, 1079, -97>>>>,
      <<<<1, 0, 0, 0, 1200, -52>>, <<-1, 0, 13102, 4790, 1299, -55>>, <<1, 14396, 1237, 3094, 1475, -98>>>>,
      <<<<1, 0, 0, 0, 1200, -52>>, <<-1, 0, 13102, 4790, 1299, -55>>, <<1, 14396, 1237, 3094, 1475, -98>>>>,
      <<<<1, 0, 0, 0, 1192, -52>>, <<-1, 4096, 122, 8130, 1244, -55>>, <<1, 5178, 13469, 2148, 1118, -100>>>>,
      <<<<1, 0, 0, 0, 1184, -52>>, <<-1, 12288, 8319, 5423, 1189, -55>>, <<-1, 1032, 7623, 4865, 1315, -97>>>>,
      <<<<1, 0, 0, 0, 1176, -52>>, <<-1, 8192, 5309, 12973, 1133, -55>>, <<-1, 9110, 8262, 2625, 1952, -97>>>>,
      <<<<1, 0, 0, 0, 1176, -52>>, <<-1, 8192, 5309, 12973, 1133, -55>>, <<-1, 9110, 8262, 2625, 1952, -97>>>>,
      <<<<1, 0, 0, 0, 1168, -52>>, <<-1, 4096, 13122, 14311, 1077, -55>>, <<1, 7156, 9121, 6504, 1690, -99>>>>,
      <<<<1, 0, 0, 0, 1168, -52>>, <<-1, 4096, 13122, 14311, 1077, -55>>, <<1, 7156, 9121, 6504, 1690, -99>>>>,
      <<<<1, 0, 0, 0, 1160, -52>>, <<-1, 8192, 1903, 2323, 2043, -56>>, <<-1, 13298, 12940, 5445, 1373, -97>>>>,
      <<<<1, 0, 0, 0, 1152, -52>>, <<-1, 0, 14508, 12406, 1929, -56>>, <<1, 60, 11200, 706, 1677, -97>>>>,
      <<<<1, 0, 0, 0, 1152, -52>>, <<-1, 0, 14508, 12406, 1929, -56>>, <<1, 60, 11200, 706, 1677, -97>>>>,
      <<<<1, 0, 0, 0, 1144, -52>>, <<-1, 0, 15727, 9544, 1815, -56>>, <<-1, 15878, 8574, 1397, 1859, -98>>>>,
      <<<<1, 0, 0, 0, 1136, -52>>, <<-1, 8192, 10539, 9939, 1700, -56>>, <<1, 10952, 8558, 4958, 1358, -97>>>>,
      <<<<1, 0, 0, 0, 1136, -52>>, <<-1, 8192, 10539, 9939, 1700, -56>>, <<1, 10952, 8558, 4958, 1358, -97>>>>,
      <<<<1, 0, 0, 0, 1128, -52>>, <<-1, 8192, 6342, 13405, 1584, -56>>, <<1, 5736, 13501, 660, 1247, -98>>>>,
      <<<<1, 0, 0, 0, 1128, -52>>, <<-1, 8192, 6342, 13405, 1584, -56>>, <<1, 5736, 13501, 660, 1247, -98>>>>,
      <<<<1, 0, 0, 0, 1120, -52>>, <<-1, 8192, 11157, 3368, 1468, -56>>, <<-1, 13274, 9421, 13180, 1445, -97>>>>,
      <<<<1, 0, 0, 0, 1112, -52>>, <<-1, 8192, 15384, 12403, 1350, -56>>, <<1, 7767, 1817, 9654, 1984, -98>>>>,
      <<<<1, 0, 0, 0, 1112, -52>>, <<-1, 8192, 15384, 12403, 1350, -56>>, <<1, 7767, 1817, 9654, 1984, -98>>>>,
      <<<<1, 0, 0, 0, 1104, -52>>, <<-1, 8192, 6255, 7545, 1232, -56>>, <<1, 5087, 13284, 11692, 1815, -97>>>>,
      <<<<1, 0, 0, 0, 1104, -52>>, <<-1, 8192, 6255, 7545, 1232, -56>>, <<1, 5087, 13284, 11692, 1815, -97>>>>,
      <<<<1, 0, 0, 0, 1096, -52>>, <<-1, 0, 14990, 4974, 1113, -56>>, <<1, 8969, 6718, 1511, 1311, -98>>>>,
      <<<<1, 0, 0, 0, 1088, -52>>, <<-1, 0, 70, 8972, 1986, -57>>, <<1, 3729, 3290, 6632, 1878, -97>>>>,
      <<<<1, 0, 0, 0, 1088, -52>>, <<-1, 0, 70, 8972, 1986, -57>>, <<1, 3729, 3290, 6632, 1878, -97>>>>,
      <<<<1, 0, 0, 0, 1080, -52>>, <<-1, 0, 1126, 11735, 1744, -57>>, <<1, 12364, 5977, 10158, 1824, -98>>>>,
      <<<<1, 0, 0, 0, 1080, -52>>, <<-1, 0, 1126, 11735, 1744, -57>>, <<1, 12364, 5977, 10158, 1824, -98>>>>,
      <<<<1, 0, 0, 0, 1072, -52>>, <<-1, 0, 6347, 1423, 1501, -57>>, <<-1, 8686, 5066, 1123, 1855, -97>>>>,
      <<<<1, 0, 0, 0, 1072, -52>>, <<-1, 0, 6347, 1423, 1501, -57>>, <<-1, 8686, 5066, 1123, 1855, -97>>>>,
      <<<<1, 0, 0, 0, 1064, -52>>, <<-1, 0, 10235, 10363, 1255, -57>>, <<1, 16042, 5275, 11135, 1344, -100>>>>,
      <<<<1, 0, 0, 0, 1064, -52>>, <<-1, 0, 10235, 10363, 1255, -57>>, <<1, 16042, 5275, 11135, 1344, -100>>>>,
      <<<<1, 0, 0, 0, 1056, -52>>, <<-1, 0, 14816, 10672, 2016, -58>>, <<-1, 2532, 12792, 615, 1632, -97>>>>,
      <<<<1, 0, 0, 0, 1056, -52>>, <<-1, 0, 14816, 10672, 2016, -58>>, <<-1, 2532, 12792, 615, 1632, -97>>>>,
      <<<<1, 0, 0, 0, 1048, -52>>, <<-1, 0, 8022, 4528, 1518, -58>>, <<-1, 9785, 4074, 5449, 1571, -97>>>>,
      <<<<1, 0, 0, 0, 1040, -52>>, <<-1, 0, 1008, 2699, 2032, -59>>, <<-1, 9884, 6990, 10191, 1991, -102>>>>,
      <<<<1, 0, 0, 0, 1040, -52>>, <<-1, 0, 1008, 2699, 2032, -59>>, <<-1, 9884, 6990, 10191, 1991, -102>>>>,
      <<<<1, 0, 0, 0, 1032, -52>>, <<-1, 0, 11328, 678, 2040, -60>>, <<-1, 228, 14185, 9200, 1656, -98>>>>,
      <<<<1, 0, 0, 0, 1032, -52>>, <<-1, 0, 11328, 678, 2040, -60>>, <<-1, 228, 14185, 9200, 1656, -98>>>>,
      <<<<1, 0, 0, 0, 1024, -52>>, <<1, 0, 0, 0, 0, 0>>, <<1, 0, 0, 0, 0, 0>>>>,
      <<<<1, 0, 0, 0, 1024, -52>>, <<1, 0, 0, 0, 0, 0>>, <<1, 0, 0, 0, 0, 0>>>>,
      <<<<1, 0, 0, 0, 2032, -53>>, <<1, 0, 5668, 343, 1028, -59>>, <<-1, 11240, 9844, 14009, 1073, -98>>>>,
      <<<<1, 0, 0, 0, 2016, -53>>, <<1, 0, 8782, 1381, 1032, -58>>, <<-1, 14290, 7051, 1456, 1271, -97>>>>,
      <<<<1, 0, 0, 0, 2000, -53>>, <<1, 0, 8996, 4690, 1554, -58>>, <<-1, 3124, 2408, 2979, 1704, -97>>>>,
      <<<<1, 0, 0, 0, 1984, -53>>, <<1, 0, 10141, 5592, 1040, -57>>, <<1, 5971, 13255, 7173, 1092, -99>>>>,
      <<<<1, 0, 0, 0, 1968, -53>>, <<1, 0, 4280, 10989, 1305, -57>>, <<-1, 15656, 5879, 10039, 1797, -97>>>>,
      <<<<1, 0, 0, 0, 1952, -53>>, <<1, 0, 4735, 2721, 1573, -57>>, <<-1, 9853, 360, 6493, 1630, -98>>>>,
      <<<<1, 0, 0, 0, 1936, -53>>, <<1, 0, 14199, 14140, 1842, -57>>, <<-1, 10247, 8032, 3876, 1690, -98>>>>,
      <<<<1, 0, 0, 0, 1928, -53>>, <<1, 0, 27, 8988, 1978, -57>>, <<-1, 15227, 16164, 5092, 1924, -99>>>>,
      <<<<1, 0, 0, 0, 1912, -53>>, <<1, 8192, 1305, 13245, 1125, -56>>, <<-1, 7835, 6198, 9685, 1356, -97>>>>,
      <<<<1, 0, 0, 0, 1896, -53>>, <<1, 8192, 8007, 8026, 1263, -56>>, <<1, 3799, 5997, 1514, 1842, -97>>>>,
      <<<<1, 0, 0, 0, 1880, -53>>, <<1, 8192, 13918, 5540, 1402, -56>>, <<-1, 7454, 12660, 4195, 1818, -97>>>>,
      <<<<1, 0, 0, 0, 1872, -53>>, <<1, 0, 11179, 3376, 1472, -56>>, <<1, 11570, 9847, 10458, 1799, -101>>>>,
      <<<<1, 0, 0, 0, 1856, -53>>, <<1, 0, 13669, 13797, 1612, -56>>, <<1, 2010, 10997, 5571, 1220, -97>>>>,
      <<<<1, 0, 0, 0, 1840, -53>>, <<1, 8192, 14005, 11400, 1754, -56>>, <<-1, 10469, 12253, 2050, 1252, -98>>>>,
      <<<<1, 0, 0, 0, 1832, -53>>, <<1, 0, 1777, 1408, 1826, -56>>, <<1, 11475, 6506, 11548, 1425, -97>>>>,
      <<<<1, 0, 0, 0, 1816, -53>>, <<1, 8192, 3112, 13208, 1969, -56>>, <<-1, 1504, 16281, 1674, 1904, -97>>>>,
      <<<<1, 0, 0, 0, 1808, -53>>, <<1, 8192, 10095, 2323, 2042, -56>>, <<-1, 2813, 16004, 3428, 1357, -97>>>>,
      <<<<1, 0, 0, 0, 1792, -53>>, <<1, 8192, 2207, 14568, 1093, -55>>, <<1, 2034, 14516, 14220, 1147, -97>>>>,
      <<<<1, 0, 0, 0, 1784, -53>>, <<1, 12288, 14479, 8887, 1130, -55>>, <<1, 6452, 4322, 14564, 1833, -97>>>>,
      <<<<1, 0, 0, 0, 1768, -53>>, <<1, 0, 12826, 5648, 1204, -55>>, <<1, 13473, 11782, 5836, 1255, -99>>>>,
      <<<<1, 0, 0, 0, 1760, -53>>, <<1, 4096, 86, 8139, 1241, -55>>, <<1, 12937, 3373, 14978, 1419, -103>>>>,
      <<<<1, 0, 0, 0, 1744, -53>>, <<1, 12288, 3278, 5080, 1316, -55>>, <<1, 13944, 5110, 14229, 1376, -97>>>>,
      <<<<1, 0, 0, 0, 1736, -53>>, <<1, 12288, 4742, 15966, 1353, -55>>, <<1, 15815, 5541, 16014, 1420, -97>>>>,
      <<<<1, 0, 0, 0, 1720, -53>>, <<1, 4096, 14896, 13547, 1429, -55>>, <<1, 11896, 12528, 14514, 1651, -98>>>>,
      <<<<1, 0, 0, 0, 1712, -53>>, <<1, 12288, 11733, 296, 1468, -55>>, <<-1, 8673, 5744, 6366, 1348, -97>>>>,
      <<<<1, 0, 0, 0, 1704, -53>>, <<1, 4096, 5393, 6360, 1506, -55>>, <<-1, 773, 581, 8455, 1817, -98>>>>,
      <<<<1, 0, 0, 0, 1688, -53>>, <<1, 0, 11492, 11006, 1583, -55>>, <<-1, 11473, 11172, 5450, 1487, -99>>>>,
      <<<<1, 0, 0, 0, 1680, -53>>, <<1, 0, 13276, 9645, 1622, -55>>, <<1, 16239, 8835, 8837, 1532, -99>>>>,
      <<<<1, 0, 0, 0, 1664, -53>>, <<1, 8192, 12843, 16083, 1700, -55>>, <<-1, 8553, 344, 9269, 1564, -97>>>>,
      <<<<1, 0, 0, 0, 1656, -53>>, <<1, 4096, 7535, 7557, 1740, -55>>, <<-1, 8618, 15027, 6356, 1805, -99>>>>,
      <<<<1, 0, 0, 0, 1648, -53>>, <<1, 8192, 8431, 2163, 1780, -55>>, <<-1, 4790, 9552, 15429, 1874, -97>>>>,
      <<<<1, 0, 0, 0, 1640, -53>>, <<1, 4096, 7104, 16316, 1819, -55>>, <<-1, 11218, 5720, 1836, 1147, -100>>>>,
      <<<<1, 0, 0, 0, 1624, -53>>, <<1, 4096, 850, 5083, 1900, -55>>, <<-1, 12341, 7254, 12975, 1727, -97>>>>,
      <<<<1, 0, 0, 0, 1616, -53>>, <<1, 4096, 16284, 12527, 1940, -55>>, <<1, 13360, 263, 8822, 1156, -103>>>>,
      <<<<1, 0, 0, 0, 1608, -53>>, <<1, 0, 4980, 6878, 1981, -55>>, <<-1, 3601, 5870, 4438, 1672, -103>>>>,
      <<<<1, 0, 0, 0, 1600, -53>>, <<1, 12288, 13006, 4550, 2022, -55>>, <<1, 7984, 10291, 16076, 1778, -98>>>>,
      <<<<1, 0, 0, 0, 1584, -53>>, <<1, 6144, 309, 4998, 1052, -54>>, <<1, 3729, 7093, 3505, 1575, -100>>>>,
      <<<<1, 0, 0, 0, 1576, -53>>, <<1, 8192, 7557, 726, 1073, -54>>, <<1, 10985, 6387, 2225, 1478, -97>>>>,
      <<<<1, 0, 0, 0, 1568, -53>>, <<1, 10240, 2207, 14568, 1093, -54>>, <<-1, 12316, 3735, 4326, 1800, -97>>>>,
      <<<<1, 0, 0, 0, 1560, -53>>, <<1, 14336, 11955, 13772, 1114, -54>>, <<1, 5761, 7828, 11487, 1766, -97>>>>,
      <<<<1, 0, 0, 0, 1552, -53>>, <<1, 10240, 3433, 14742, 1135, -54>>, <<1, 15799, 1310, 11989, 1833, -97>>>>,
      <<<<1, 0, 0, 0, 1544, -53>>, <<1, 14336, 13370, 1110, 1157, -54>>, <<1, 15082, 10522, 15851, 1697, -99>>>>,
      <<<<1, 0, 0, 0, 1528, -53>>, <<1, 4096, 13170, 12039, 1199, -54>>, <<1, 1268, 10560, 4004, 1703, -97>>>>,
      <<<<1, 0, 0, 0, 1520, -53>>, <<1, 8192, 1869, 3870, 1221, -54>>, <<-1, 15544, 3204, 10157, 1592, -97>>>>,
      <<<<1, 0, 0, 0, 1512, -53>>, <<1, 4096, 6904, 13943, 1242, -54>>, <<1, 14280, 965, 11483, 1115, -98>>>>,
      <<<<1, 0, 0, 0, 1504, -53>>, <<1, 12288, 7372, 9511, 1264, -54>>, <<1, 15708, 6170, 13643, 1550, -98>>>>,
      <<<<1, 0, 0, 0, 1496, -53>>, <<1, 10240, 3927, 6978, 1286, -54>>, <<1, 8349, 12867, 878, 1593, -99>>>>,
      <<<<1, 0, 0, 0, 1488, -53>>, <<1, 2048, 2503, 6364, 1308, -54>>, <<-1, 5749, 9631, 15584, 1993, -97>>>>,
      <<<<1, 0, 0, 0, 1480, -53>>, <<1, 12288, 14428, 7689, 1330, -54>>, <<-1, 6308, 11307, 2193, 1928, -97>>>>,
      <<<<1, 0, 0, 0, 1472, -53>>, <<1, 8192, 7394, 10976, 1352, -54>>, <<1, 1881, 1427, 9992, 1967, -97>>>>,
      <<<<1, 0, 0, 0, 1464, -53>>, <<1, 4096, 3875, 16245, 1374, -54>>, <<1, 239, 14709, 7902, 2027, -98>>>>,
      <<<<1, 0, 0, 0, 1456, -53>>, <<1, 8192, 15717, 7133, 1397, -54>>, <<-1, 9692, 8849, 12960, 1666, -99>>>>>>

\* ln(x) as hi + lo with extra precision, then y * ln(x) as ehi + elo,
\* from the registers kd, z, invc, logc, logctail and y
pow_prog ==
    <<<<"t1", "fma", "kd", "Ln2hi", "logc">>,          \* t1 = kd * Ln2hi + logc
      <<"lo1", "fma", "kd", "Ln2lo", "logctail">>,     \* lo1 = kd * Ln2lo + logctail
      <<"r", "fma", "z", "invc", "m1">>,               \* r = fma(z, invc, -1.0)
      <<"ar", "mul", "r", "A0">>,                      \* ar = A[0] * r
      <<"q12", "fma", "r", "A2", "A1">>,               \* A[1] + r * A[2]
      <<"q34", "fma", "r", "A4", "A3">>,               \* A[3] + r * A[4]
      <<"t2", "add", "r", "t1">>,                      \* t2 = t1 + r
      <<"ar2", "mul", "r", "ar">>,                     \* ar2 = r * ar
      <<"d", "sub", "t1", "t2">>,                      \* t1 - t2
      <<"ar3", "mul", "r", "ar2">>,                    \* ar3 = r * ar2
      <<"lo3", "fms", "ar", "r", "ar2">>,              \* lo3 = fma(ar, r, -ar2)
      <<"lo2", "add", "d", "r">>,                      \* lo2 = t1 - t2 + r
      <<"q56", "fma", "r", "A6", "A5">>,               \* A[5] + r * A[6]
      <<"hi", "add", "t2", "ar2">>,                    \* hi = t2 + ar2
      <<"d", "sub", "t2", "hi">>,                      \* t2 - hi
      <<"q", "fma", "q56", "ar2", "q34">>,             \* A[3] + r * A[4] + ar2 * (A[5] + r * A[6])
      <<"lo4", "add", "d", "ar2">>,                    \* lo4 = t2 - hi + ar2
      <<"p", "fma", "ar2", "q", "q12">>,               \* A[1] + r * A[2] + ar2 * (...)
      <<"lo", "add", "lo1", "lo2">>,                   \* lo1 + lo2
      <<"lo", "add", "lo", "lo3">>,                    \* lo1 + lo2 + lo3
      <<"lo", "add", "lo", "lo4">>,                    \* lo1 + lo2 + lo3 + lo4
      <<"lo", "fma", "ar3", "p", "lo">>,               \* lo = lo1 + lo2 + lo3 + lo4 + ar3 * (...)
      <<"yl", "add", "hi", "lo">>,                     \* y = hi + lo
      <<"d", "sub", "hi", "yl">>,                      \* hi - y
      <<"tl", "add", "d", "lo">>,                      \* *tail = hi - y + lo
      <<"ehi", "mul", "y", "yl">>,                     \* ehi = y * hi
      <<"d", "fms", "yl", "y", "ehi">>,                \* fma(y, hi, -ehi)
      <<"elo", "fma", "y", "tl", "d">>>>               \* elo = y * lo + fma(y, hi, -ehi)

\* x ** y, lines 13-14, for doubles x >= 0 and y (y > 0 when x = 0):
\* float_pow returns 1.0 for y = 0 and for x = 1, 0.0 for x = 0, and
\* otherwise pow(x, y) = exp(y * ln x), the logarithm taken for
\* z = x / 2^k in [OFF, 2 * OFF), OFF = 0x1.69555p-1
pow_log(s, y) ==
    LET tab == pow_tab[s.i + 1]
    IN  run(("kd" :> to_double(s.k) @@ "z" :> s.z @@ "y" :> y @@
             "invc" :> Dbl(tab[1]) @@ "logc" :> Dbl(tab[2]) @@
             "logctail" :> Dbl(tab[3]))
                @@ registers(pow_data),
            pow_prog)

float_pow(x, y) ==
    IF y.man = <<>> \/ x = One THEN One
    ELSE IF x.man = <<>> THEN Zero
    ELSE CHOOSE r \in
             {exp_inline(regs["ehi"], regs["elo"], exp_reduce \o exp_tail)
              : regs \in {CHOOSE q \in
                             {pow_log(s, y)
                              : s \in {reduce(x, BigShlBits(Big(431445), 32))}}
                             : TRUE}} : TRUE

(***************************************************************************)
(* classical_complexity, lines 8-14                                        *)
(***************************************************************************)
\* math.log(2), line 11: 0.6931471805599453
Ln2 == math_log(to_double(2))

\* ln_n = bits * math.log(2), line 11
ln_n(bits) == fmul(to_double(bits), Ln2)

\* ln_ln_n = math.log(ln_n), line 12
ln_ln_n(L) == math_log(L)

\* c = (64/9) ** (1/3), line 13: 1.9229994270765444
gnfs_c == float_pow(true_divide(64, 9), true_divide(1, 3))

\* c * (ln_n ** (1/3)) * (ln_ln_n ** (2/3)), line 14, for ln_ln_n >= 0
gnfs_exponent(L, l) ==
    fmul(fmul(gnfs_c, float_pow(L, true_divide(1, 3))),
         float_pow(l, true_divide(2, 3)))

\* 1e100, line 14: the double 0x1.249ad2594c37dp+332
Cap == Dbl(<<1, 893, 5715, 6866, 1170, 280>>)

\* min(a, b): b when b < a, else a
python_min(a, b) == IF Less(b, a) THEN b ELSE a

\* the lines 12-14 for a ln_n > 0, without min
gnfs_estimate(L, l) ==
    IF l.neg THEN [kind |-> "TypeError", v |-> Zero]
    ELSE math_exp(gnfs_exponent(L, l))

\* classical_complexity that lets the raw value through.  math.log(ln_n)
\* raises ValueError for ln_n <= 0; a negative ln_ln_n (ln_n < 1) raised to
\* 2/3 is a complex number, which math.exp rejects with TypeError; math.exp
\* raises OverflowError beyond its range.
classical_complexity_uncapped(bits) ==
    IF bits <= 0 THEN [kind |-> "ValueError", v |-> Zero]
    ELSE CHOOSE r \in
             {CHOOSE q \in {gnfs_estimate(L, l) : l \in {ln_ln_n(L)}} : TRUE
              : L \in {ln_n(bits)}} : TRUE

\* classical_complexity, lines 10-14: min(..., 1e100) is applied to what
\* math.exp returns
classical_complexity(bits) ==
    CHOOSE r \in
        {IF raw.kind = "value"
         THEN [kind |-> "value", v |-> python_min(raw.v, Cap)]
         ELSE raw
         : raw \in {classical_complexity_uncapped(bits)}} : TRUE


\* The arguments tried.  Key sizes: every value up to MaxCxBits, the sizes
\* of the module's table (512 .. 4096) and, for classical_complexity, sizes
\* on both sides of the cap and of math.exp's range.  Operation counts:
\* every whole number of seconds up to MaxSecs and the values around each
\* threshold, with a fraction of a second of 0, 1e-9, 1 - 3e-9 or 1 - 1e-9.
MaxCxBits == 40

MaxSecs == 61

TableBits == {512, 1024, 2048, 4096}

LargeBits ==
    {8437, 16128, 17922, 20000, 21939, 25827, 25828, 30000, 100000, 400000,
     452859, 452860, 500000, 1000000}

ThresholdSecs ==
    {3599, 3600, 3601, 86399, 86400, 86401, 31535999, 31536000, 31536001}

OpsInputs ==
    ((0..MaxSecs) \cup ThresholdSecs) \X {0, 1, OpsPerSec - 3, OpsPerSec - 1}

CxInit ==
    /\ cx \in [pc : {"call"}, fn : {"quantum_complexity"},
               arg : (0..MaxCxBits) \cup TableBits, out : {None}]
          \cup [pc : {"call"}, fn : {"classical_complexity"},
                arg : (0..MaxCxBits) \cup TableBits \cup LargeBits, out : {None}]
          \cup [pc : {"call"}, fn : {"ops_to_time"}, arg : OpsInputs, out : {None}]
    /\ mi = Idle /\ rsa = Idle /\ td = Idle /\ pr = Idle /\ pf = Idle /\ sh = Idle
    /\ ky = Idle /\ lw = Idle /\ sx = Idle /\ hv = Idle /\ qk = Idle /\ vz = Idle
    /\ dm = Idle

CxQuantum ==
    /\ cx.pc = "call" /\ cx.fn = "quantum_complexity"
    /\ cx' = [cx EXCEPT !.pc = "done", !.out = quantum_complexity(cx.arg)]
    /\ UNCHANGED <<mi, rsa, td, pr, pf, sh, ky, lw, sx, hv, qk, vz, dm>>

CxClassical ==
    /\ cx.pc = "call" /\ cx.fn = "classical_complexity"
    /\ cx' = [cx EXCEPT !.pc = "done", !.out = classical_complexity(cx.arg)]
    /\ UNCHANGED <<mi, rsa, td, pr, pf, sh, ky, lw, sx, hv, qk, vz, dm>>

CxOpsToTime ==
    /\ cx.pc = "call" /\ cx.fn = "ops_to_time"
    /\ cx' = [cx EXCEPT !.pc = "done", !.out = ops_to_time(cx.arg)]
    /\ UNCHANGED <<mi, rsa, td, pr, pf, sh, ky, lw, sx, hv, qk, vz, dm>>

CxNext == CxQuantum \/ CxClassical \/ CxOpsToTime

SpecComparison == CxInit /\ [][CxNext]_vars

CxDone(fn) == cx.pc = "done" /\ cx.fn = fn

\* C14: quantum_complexity(bits) = bits^3 exactly for every non-negative
\* integer bits (the result divided twice by bits gives bits, without
\* remainder), and quantum_complexity(2048) = 8589934592 = 8192 * 2^20.
C14_QuantumCube ==
    CxDone("quantum_complexity") =>
        /\ cx.arg = 0 => cx.out = IntZero
        /\ cx.arg > 0 =>
              LET once == IntDivMod(cx.out, Int2(cx.arg))
              IN  /\ once[2] = IntZero
                  /\ IntDivMod(once[1], Int2(cx.arg)) = <<Int2(cx.arg), IntZero>>
        /\ cx.arg = 2048 => cx.out = <<8192, 0>>

C14_Witness ==
    CxDone("quantum_complexity") /\ cx.arg = 2048 /\ cx.out = <<8192, 0>>

\* C15: with secs = ops / 1e9, the float that line 22 computes, ops_to_time
\* reports seconds iff secs < 60, minutes iff 60 <= secs < 3600, hours iff
\* 3600 <= secs < 86400, days iff 86400 <= secs < 31536000 and years
\* otherwise; 59e9 operations are reported in seconds, 60e9 and 61e9 in
\* minutes.  The float is the exact quotient or, within 3e-9 below a whole
\* second, that whole second.
C15_UnitSelection ==
    CxDone("ops_to_time") =>
        LET secs == secs_float(cx.arg)
        IN  /\ cx.arg[1] <= secs /\ secs <= cx.arg[1] + 1
            /\ secs = cx.arg[1] + 1 => cx.arg[2] >= OpsPerSec - 2
            /\ cx.out.unit = "sec" <=> secs < 60
            /\ cx.out.unit = "min" <=> (60 <= secs /\ secs < 3600)
            /\ cx.out.unit = "hours" <=> (3600 <= secs /\ secs < 86400)
            /\ cx.out.unit = "days" <=> (86400 <= secs /\ secs < 31536000)
            /\ cx.out.unit = "years" <=> 31536000 <= secs
            /\ cx.arg = <<59, 0>> => cx.out.unit = "sec"
            /\ cx.arg \in {<<60, 0>>, <<61, 0>>} => cx.out.unit = "min"

\* 60e9 operations, exactly one minute
C15_Witness ==
    CxDone("ops_to_time") /\ cx.arg = <<60, 0>> /\ cx.out.unit = "min"
        /\ cx.out.divisor = 60

\* ops_to_time(31535999999999999): the quotient rounds to 31536000.0, a year
C15_RoundedUp ==
    CxDone("ops_to_time") /\ cx.arg = <<31535999, OpsPerSec - 1>>
        /\ secs_float(cx.arg) = 31536000 /\ cx.out.unit = "years"

\* C16 (as stated): classical_complexity(bits) is non-decreasing in bits and
\* never exceeds 1e100: it is the raw estimate when that is at most 1e100
\* and 1e100 only when the raw estimate exceeds it.
C16_ClassicalCapped ==
    CxDone("classical_complexity") =>
        /\ cx.out.kind = "value"
        /\ ~Less(Cap, cx.out.v)
        /\ LET raw == classical_complexity_uncapped(cx.arg)
           IN  /\ raw.kind = "value"
               /\ ~Less(Cap, raw.v) => cx.out.v = raw.v
               /\ cx.out.v = Cap => ~Less(raw.v, Cap)
        /\ cx.arg > 0 =>
              LET before == classical_complexity(cx.arg - 1)
              IN  before.kind = "value" /\ ~Less(cx.out.v, before.v)

\* classical_complexity on the sizes where it returns: from 2 bits up to the
\* end of math.exp's range it is non-decreasing and capped as stated
C16_WhereDefined ==
    (CxDone("classical_complexity") /\ cx.out.kind = "value") =>
        /\ cx.arg >= 2
        /\ ~Less(Cap, cx.out.v)
        /\ LET raw == classical_complexity_uncapped(cx.arg)
           IN  /\ ~Less(Cap, raw.v) => cx.out.v = raw.v
               /\ cx.out.v = Cap => ~Less(raw.v, Cap)
        /\ cx.arg > 2 => ~Less(cx.out.v, classical_complexity(cx.arg - 1).v)

\* classical_complexity(452860), the first size on which math.exp is out of
\* range before min is applied
C16_Overflow ==
    CxDone("classical_complexity") /\ cx.arg = 452860
        /\ cx.out.kind = "OverflowError"
        /\ classical_complexity(452859) = [kind |-> "value", v |-> Cap]

\* classical_complexity(25828), the first size on which the cap applies:
\* 9.984855029566071e+99 one bit earlier
C16_FirstCapped ==
    CxDone("classical_complexity") /\ cx.arg = 25828
        /\ cx.out = [kind |-> "value", v |-> Cap]
        /\ classical_complexity(25827) =
              [kind |-> "value", v |-> Dbl(<<1, 9221, 2160, 10592, 1168, 280>>)]

(***************************************************************************)
(* 03_shors_algorithm.py: the imports, create_shors_circuit_demo,          *)
(* demo_quantum_period_finding and the module's main program.  One step    *)
(* per statement of the main program, one per row of the table of          *)
(* demo_full_factorization.  What is installed is part of the initial      *)
(* state: whether numpy can be imported, and which of the guarded imports  *)
(* fails first.                                                            *)
(***************************************************************************)
\* lines 23-31: the import that raises ImportError, or "ok" when none does
ImportOutcomes == {"ok", "qiskit", "qiskit_aer", "qiskit.synthesis.qft"}

QISKIT_AVAILABLE(outcome) == outcome = "ok"

\* lines 16-31, the loading of the module.  import numpy, line 16, stands
\* outside the try: without numpy the load ends there with
\* ModuleNotFoundError and QISKIT_AVAILABLE is never assigned (lines 17-20
\* import from the standard library).  Otherwise an ImportError of lines
\* 24-26 is caught and leaves QISKIT_AVAILABLE False.
load_module(numpy, outcome) ==
    IF ~numpy THEN [available |-> FALSE, err |-> "ModuleNotFoundError"]
    ELSE [available |-> QISKIT_AVAILABLE(outcome), err |-> "none"]

\* lines 228-266: the warning printed or not, what is returned, the error raised
create_shors_circuit_demo(available) ==
    IF ~available THEN [warned |-> TRUE, circuit |-> "None", err |-> "none"]
    ELSE [warned |-> FALSE, circuit |-> "QuantumCircuit", err |-> "none"]

\* lines 272-323
demo_quantum_period_finding(available) ==
    IF ~available
    THEN [warned |-> TRUE, circuit |-> "unset", simulated |-> FALSE, err |-> "none"]
    ELSE LET qc == create_shors_circuit_demo(available)
         IN  [warned |-> qc.warned, circuit |-> qc.circuit, simulated |-> TRUE,
              err |-> "none"]

\* line 333
test_numbers == <<15, 21, 35, 77, 91, 143, 221, 323>>

\* What classical_shors_simulation(N) can return for an odd N that is no
\* perfect power, over the draws a with gcd(a, N) > 1 (which return at
\* once) and the draw a = N - 1 repeated in all attempts.  The pair
\* (None, None) is written <<0, 0>>.
simulation_results(N) ==
    {<<shor_attempt(a, N).p, shor_attempt(a, N).q>> :
        a \in {b \in 2..(N - 1) : gcd(b, N) > 1}}
    \cup (IF shor_attempt(N - 1, N).kind \in ReturnKinds THEN {}
          ELSE {<<0, 0>>})

\* lines 340-344: if p and q
factorization_status(pq) ==
    IF pq[1] # 0 /\ pq[2] # 0 THEN "Factored" ELSE "Failed"

QkInit ==
    /\ qk \in [pc : {"import"}, entry : {"__main__", "create_shors_circuit_demo"},
               numpy : BOOLEAN, qiskit : ImportOutcomes,
               available : {FALSE}, warned : {FALSE}, circuit : {"unset"},
               simulated : {FALSE}, rows : {<<>>}, detailed : {"unset"},
               err : {"none"}]
    /\ mi = Idle /\ rsa = Idle /\ td = Idle /\ pr = Idle /\ pf = Idle /\ sh = Idle
    /\ ky = Idle /\ lw = Idle /\ sx = Idle /\ hv = Idle /\ cx = Idle /\ vz = Idle
    /\ dm = Idle

\* lines 16-31, run when the module is loaded; an error ends the program
\* before any function is called
QkImport ==
    /\ qk.pc = "import"
    /\ LET res == load_module(qk.numpy, qk.qiskit)
       IN  qk' = [qk EXCEPT !.pc = IF res.err # "none" THEN "crashed"
                                   ELSE IF qk.entry = "__main__" THEN "explain"
                                   ELSE "create",
                            !.available = res.available, !.err = res.err]
    /\ UNCHANGED <<mi, rsa, td, pr, pf, sh, ky, lw, sx, hv, cx, vz, dm>>

\* a call of create_shors_circuit_demo(15, 7)
QkCreate ==
    /\ qk.pc = "create"
    /\ LET res == create_shors_circuit_demo(qk.available)
       IN  qk' = [qk EXCEPT !.pc = "returned", !.warned = res.warned,
                            !.circuit = res.circuit, !.err = res.err]
    /\ UNCHANGED <<mi, rsa, td, pr, pf, sh, ky, lw, sx, hv, cx, vz, dm>>

\* line 369: explain_shors_algorithm() prints
QkExplain ==
    /\ qk.pc = "explain"
    /\ qk' = [qk EXCEPT !.pc = "period"]
    /\ UNCHANGED <<mi, rsa, td, pr, pf, sh, ky, lw, sx, hv, cx, vz, dm>>

\* line 372: demo_quantum_period_finding(); an error ends the program
QkPeriod ==
    /\ qk.pc = "period"
    /\ LET res == demo_quantum_period_finding(qk.available)
       IN  qk' = [qk EXCEPT !.pc = IF res.err = "none" THEN "factorization" ELSE "crashed",
                            !.warned = res.warned, !.circuit = res.circuit,
                            !.simulated = res.simulated, !.err = res.err]
    /\ UNCHANGED <<mi, rsa, td, pr, pf, sh, ky, lw, sx, hv, cx, vz, dm>>

\* line 375, lines 338-344: one row of demo_full_factorization
QkRow ==
    /\ qk.pc = "factorization"
    /\ Len(qk.rows) < Len(test_numbers)
    /\ \E pq \in simulation_results(test_numbers[Len(qk.rows) + 1]) :
          qk' = [qk EXCEPT !.rows = Append(@, factorization_status(pq))]
    /\ UNCHANGED <<mi, rsa, td, pr, pf, sh, ky, lw, sx, hv, cx, vz, dm>>

\* lines 346-360: the table is complete
QkRowsDone ==
    /\ qk.pc = "factorization"
    /\ Len(qk.rows) = Len(test_numbers)
    /\ qk' = [qk EXCEPT !.pc = "detailed"]
    /\ UNCHANGED <<mi, rsa, td, pr, pf, sh, ky, lw, sx, hv, cx, vz, dm>>

\* lines 378-386: classical_shors_simulation(15, verbose=True), then the
\* closing lines
QkDetailed ==
    /\ qk.pc = "detailed"
    /\ \E pq \in simulation_results(15) :
          qk' = [qk EXCEPT !.pc = "exit", !.detailed = factorization_status(pq)]
    /\ UNCHANGED <<mi, rsa, td, pr, pf, sh, ky, lw, sx, hv, cx, vz, dm>>

QkNext ==
    QkImport \/ QkCreate \/ QkExplain \/ QkPeriod \/ QkRow \/ QkRowsDone \/ QkDetailed

SpecShorMain == QkInit /\ [][QkNext]_vars

\* C17 (as stated): when the quantum-circuit dependency cannot be loaded,
\* create_shors_circuit_demo returns no circuit after a warning,
\* demo_quantum_period_finding returns without building or simulating a
\* circuit, and the program goes on through demo_full_factorization and the
\* detailed factoring of 15 to its end; no error is raised on the way.
C17_AsStated ==
    (qk.pc # "import" /\ qk.qiskit # "ok") =>
        /\ ~qk.available
        /\ qk.err = "none" /\ qk.pc # "crashed"
        /\ qk.pc = "returned" => (qk.warned /\ qk.circuit = "None")
        /\ qk.pc \in {"factorization", "detailed", "exit"} =>
              (qk.warned /\ qk.circuit = "unset" /\ ~qk.simulated)
        /\ qk.pc \in {"detailed", "exit"} => Len(qk.rows) = Len(test_numbers)
        /\ qk.pc = "exit" => qk.detailed # "unset"
        /\ qk.pc \notin {"returned", "exit"} => ENABLED QkNext

\* The two cases of the reduced mode.  Where numpy can be imported and the
\* quantum-circuit dependency cannot, create_shors_circuit_demo returns no
\* circuit after a warning, demo_quantum_period_finding returns without
\* building or simulating a circuit, and the program goes on through
\* demo_full_factorization and the detailed factoring of 15 to its end.
\* Where numpy cannot be imported the program ends while loading, with
\* ModuleNotFoundError at line 16, before any warning and any call.
C17_GracefulDegradation ==
    /\ (qk.pc # "import" /\ qk.numpy /\ qk.qiskit # "ok") =>
          /\ ~qk.available
          /\ qk.err = "none" /\ qk.pc # "crashed"
          /\ qk.pc = "returned" => (qk.warned /\ qk.circuit = "None")
          /\ qk.pc \in {"factorization", "detailed", "exit"} =>
                (qk.warned /\ qk.circuit = "unset" /\ ~qk.simulated)
          /\ qk.pc \in {"detailed", "exit"} => Len(qk.rows) = Len(test_numbers)
          /\ qk.pc = "exit" => qk.detailed # "unset"
          /\ qk.pc \notin {"returned", "exit"} => ENABLED QkNext
    /\ (qk.pc # "import" /\ ~qk.numpy) =>
          /\ qk.pc = "crashed" /\ qk.err = "ModuleNotFoundError"
          /\ ~qk.warned /\ qk.circuit = "unset" /\ qk.rows = <<>>

\* the main program at its end without the dependency, after a table in
\* which one number could not be factored
C17_Witness ==
    /\ qk.pc = "exit" /\ qk.entry = "__main__" /\ qk.numpy /\ qk.qiskit = "qiskit"
    /\ ~qk.available /\ qk.warned
    /\ qk.circuit = "unset" /\ ~qk.simulated /\ qk.err = "none"
    /\ Len(qk.rows) = 8 /\ qk.rows[1] = "Failed" /\ qk.rows[8] = "Factored"
    /\ qk.detailed = "Factored"

\* python 03_shors_algorithm.py with neither numpy nor qiskit installed:
\* the quantum-circuit dependency cannot be loaded, and the program ends
\* with an error instead of continuing in the reduced mode
C17_NumpyMissing ==
    /\ qk.pc = "crashed" /\ qk.entry = "__main__" /\ ~qk.numpy /\ qk.qiskit = "qiskit"
    /\ qk.err = "ModuleNotFoundError" /\ ~qk.warned /\ qk.rows = <<>>

(***************************************************************************)
(* 06_visualizations.py: save_fig and the module's main program.  The     *)
(* file system is the output directory (present or not), the set of file  *)
(* names in it, and whether the process may create and write there.       *)
(***************************************************************************)

\* line 19: the directory part of the path
VizDir == "/Users/macbook/Documents/QuantumCrypto/visualizations"

\* lines 74, 110, 183, 235, 286 in the order of the calls of lines 294-298
figure_names ==
    <<"01_complexity_comparison", "02_quantum_speedup", "03_threat_timeline",
      "04_algorithm_comparison", "05_qubit_progress">>

\* line 19: path = f'{dir}/{name}.png'
save_path(name) == [dir |-> VizDir, file |-> name \o ".png"]

\* line 20: os.makedirs(os.path.dirname(path), exist_ok=True)
makedirs(fs, dir) ==
    IF dir \in fs.dirs THEN [fs |-> fs, err |-> "none"]
    ELSE IF fs.permitted
         THEN [fs |-> [fs EXCEPT !.dirs = @ \cup {dir}], err |-> "none"]
         ELSE [fs |-> fs, err |-> "PermissionError"]

\* line 21: plt.savefig(path, ...) creates or overwrites the file
savefig(fs, path) ==
    IF path.dir \notin fs.dirs THEN [fs |-> fs, err |-> "FileNotFoundError"]
    ELSE IF ~fs.permitted THEN [fs |-> fs, err |-> "PermissionError"]
    ELSE [fs |-> [fs EXCEPT !.files = @ \cup {path.file}], err |-> "none"]

\* save_fig without line 20
save_fig_without_makedirs(fs, name) == savefig(fs, save_path(name))

\* lines 17-22
save_fig(fs, name) ==
    LET made == makedirs(fs, VizDir)
    IN  IF made.err # "none" THEN made ELSE savefig(made.fs, save_path(name))

\* Number of runs of the program on the same file system
MaxRuns == 2

\* File names that may be in the directory before the first run
OldFiles ==
    {figure_names[i] \o ".png" : i \in 1..Len(figure_names)} \cup {"notes.txt"}

FileSystems ==
    {[dirs |-> {}, files |-> {}, permitted |-> w] : w \in BOOLEAN}
    \cup {[dirs |-> {VizDir}, files |-> f, permitted |-> w] :
             f \in SUBSET OldFiles, w \in BOOLEAN}

VzInit ==
    /\ vz \in [pc : {"start"}, fs : FileSystems, run : {1}, calls : {<<>>},
               before : {{}}, previous : {{}}, err : {"none"}]
    /\ mi = Idle /\ rsa = Idle /\ td = Idle /\ pr = Idle /\ pf = Idle /\ sh = Idle
    /\ ky = Idle /\ lw = Idle /\ sx = Idle /\ hv = Idle /\ cx = Idle /\ qk = Idle
    /\ dm = Idle

\* lines 289-292: the program starts; before remembers the files present
VzMain ==
    /\ vz.pc = "start"
    /\ vz' = [vz EXCEPT !.pc = "plot", !.calls = <<>>, !.before = vz.fs.files]
    /\ UNCHANGED <<mi, rsa, td, pr, pf, sh, ky, lw, sx, hv, cx, qk, dm>>

\* lines 294-298: the next plot function, ending in its call of save_fig;
\* an error ends the program
VzPlot ==
    /\ vz.pc = "plot"
    /\ Len(vz.calls) < Len(figure_names)
    /\ LET name == figure_names[Len(vz.calls) + 1]
           res == save_fig(vz.fs, name)
       IN  vz' = [vz EXCEPT !.pc = IF res.err = "none" THEN "plot" ELSE "crashed",
                            !.fs = res.fs, !.calls = Append(@, name),
                            !.err = res.err]
    /\ UNCHANGED <<mi, rsa, td, pr, pf, sh, ky, lw, sx, hv, cx, qk, dm>>

\* lines 300-302: the closing lines
VzAllSaved ==
    /\ vz.pc = "plot"
    /\ Len(vz.calls) = Len(figure_names)
    /\ vz' = [vz EXCEPT !.pc = "exit"]
    /\ UNCHANGED <<mi, rsa, td, pr, pf, sh, ky, lw, sx, hv, cx, qk, dm>>

\* the program is run again on the file system the last run left
VzRunAgain ==
    /\ vz.pc = "exit"
    /\ vz.run < MaxRuns
    /\ vz' = [vz EXCEPT !.pc = "start", !.run = @ + 1, !.calls = <<>>,
                        !.previous = vz.fs.files]
    /\ UNCHANGED <<mi, rsa, td, pr, pf, sh, ky, lw, sx, hv, cx, qk, dm>>

VzNext == VzMain \/ VzPlot \/ VzAllSaved \/ VzRunAgain

SpecVisualization == VzInit /\ [][VzNext]_vars

FigureFiles(names) == {names[i] \o ".png" : i \in 1..Len(names)}

\* C18: where the process may create and write the output directory, a run
\* of the visualization program raises no error, calls save_fig for the
\* five names in the fixed order, each call adding or overwriting exactly
\* the file <name>.png in the one output directory, which exists from the
\* first call on; a finished run leaves the five files, and a second run
\* leaves the set of files of the directory as the first run left it.
C18_FiveFilesIdempotent ==
    /\ vz.err # "none" => ~vz.fs.permitted
    /\ vz.pc \in {"plot", "exit"} =>
          /\ vz.calls = SubSeq(figure_names, 1, Len(vz.calls))
          /\ vz.fs.files = vz.before \cup FigureFiles(vz.calls)
          /\ vz.calls # <<>> => vz.fs.dirs = {VizDir}
    /\ vz.pc = "exit" =>
          /\ vz.calls = figure_names
          /\ FigureFiles(figure_names) \subseteq vz.fs.files
          /\ Cardinality(FigureFiles(vz.calls)) = Len(figure_names)
          /\ vz.run > 1 => vz.fs.files = vz.previous

\* A second run has finished on a directory that did not exist before the
\* first run.
C18_Witness ==
    /\ vz.pc = "exit" /\ vz.run = MaxRuns
    /\ vz.previous = FigureFiles(figure_names)
    /\ vz.fs.files = FigureFiles(figure_names)

\* A second run has finished on a directory that held another file.
C18_WitnessOther ==
    /\ vz.pc = "exit" /\ vz.run = MaxRuns
    /\ "notes.txt" \in vz.fs.files

(***************************************************************************)
(* 01_rsa_basics.py: demo_rsa_encryption.  A text is the sequence of its  *)
(* characters.                                                             *)
(***************************************************************************)

\* line 144: generate_rsa_keys(bits=10)
DemoBits == 10

\* the values generate_prime(bits) can return when every draw of
\* random.randint(2^(bits-1), 2^bits - 1) is considered
generate_prime_any(bits) ==
    {n \in {odd_candidate(s) : s \in 2^(bits - 1) .. (2^bits - 1)} : is_prime(n)}

\* the capital letters, in the order of their code points
Capitals ==
    <<"A", "B", "C", "D", "E", "F", "G", "H", "I", "J", "K", "L", "M",
      "N", "O", "P", "Q", "R", "S", "T", "U", "V", "W", "X", "Y", "Z">>

\* the code point before "A"
CapitalBase == 64

\* ord(char), for a capital letter
ord(char) == CapitalBase + (CHOOSE i \in DOMAIN Capitals : Capitals[i] = char)

\* chr(num); a code point that is no capital letter is shown by its number
chr(num) ==
    IF num - CapitalBase \in DOMAIN Capitals THEN Capitals[num - CapitalBase]
    ELSE "chr(" \o ToString(num) \o ")"

\* lines 127-129
text_to_numbers(text) == [i \in DOMAIN text |-> ord(text[i])]

\* lines 132-134
numbers_to_text(numbers) == [i \in DOMAIN numbers |-> chr(numbers[i])]

\* line 151
original_message == 42

\* line 168
text_message == <<"H", "I">>

\* line 177 with the comparison turned round
fits_gt(num, n) == IntLt(n, Int2(num))

\* line 177: if num < n
fits(num, n) == IntLt(Int2(num), n)

DmInit ==
    /\ dm = [pc |-> "keys", p |-> 0, q |-> 0, n |-> IntZero, e |-> IntZero,
             d |-> IntZero, encrypted |-> IntZero, decrypted |-> IntZero,
             numbers |-> <<>>, encrypted_numbers |-> <<>>, skipped |-> <<>>,
             decrypted_numbers |-> <<>>, decrypted_text |-> <<>>, err |-> "none"]
    /\ mi = Idle /\ rsa = Idle /\ td = Idle /\ pr = Idle /\ pf = Idle /\ sh = Idle
    /\ ky = Idle /\ lw = Idle /\ sx = Idle /\ hv = Idle /\ cx = Idle /\ qk = Idle
    /\ vz = Idle

\* line 144: generate_rsa_keys(bits=10), lines 73-106
DmGenerateKeys ==
    /\ dm.pc = "keys"
    /\ \E p \in generate_prime_any(DemoBits) :
       \E q \in generate_prime_any(DemoBits) \ {p} :
          LET n   == IntMul(Int2(p), Int2(q))
              phi == IntMul(Int2(p - 1), Int2(q - 1))
              e   == choose_e(phi)
              d   == mod_inverse(e, phi)
          IN  Strict2(n, phi, Strict2(e, d,
                dm' = [dm EXCEPT !.pc = "number", !.p = p, !.q = q, !.n = n,
                                 !.e = e, !.d = d]))
    /\ UNCHANGED <<mi, rsa, td, pr, pf, sh, ky, lw, sx, hv, cx, qk, vz>>

\* lines 151-161: the number is encrypted and decrypted, then the assertion
DmNumber ==
    /\ dm.pc = "number"
    /\ LET r   == encrypt(Int2(original_message), dm.e, dm.n)
           out == decrypt(r.c, dm.d, dm.n)
       IN  IF r.err # "none"
           THEN dm' = [dm EXCEPT !.pc = "crashed", !.err = r.err]
           ELSE Strict(out,
                  dm' = [dm EXCEPT
                            !.pc = IF out = Int2(original_message) THEN "text"
                                   ELSE "crashed",
                            !.encrypted = r.c, !.decrypted = out,
                            !.numbers = text_to_numbers(text_message),
                            !.err = IF out = Int2(original_message) THEN "none"
                                    ELSE "AssertionError"])
    /\ UNCHANGED <<mi, rsa, td, pr, pf, sh, ky, lw, sx, hv, cx, qk, vz>>

\* lines 176-180: one round of the loop over numbers
DmCharacter ==
    /\ dm.pc = "text"
    /\ Len(dm.encrypted_numbers) + Len(dm.skipped) < Len(dm.numbers)
    /\ LET num == dm.numbers[Len(dm.encrypted_numbers) + Len(dm.skipped) + 1]
           r   == encrypt(Int2(num), dm.e, dm.n)
       IN  IF fits(num, dm.n)
           THEN IF r.err # "none"
                THEN dm' = [dm EXCEPT !.pc = "crashed", !.err = r.err]
                ELSE dm' = [dm EXCEPT !.encrypted_numbers = Append(@, r.c)]
           ELSE dm' = [dm EXCEPT !.skipped = Append(@, num)]
    /\ UNCHANGED <<mi, rsa, td, pr, pf, sh, ky, lw, sx, hv, cx, qk, vz>>

\* lines 181-189: the ciphertexts are decrypted and turned into text
DmDecryptText ==
    /\ dm.pc = "text"
    /\ Len(dm.encrypted_numbers) + Len(dm.skipped) = Len(dm.numbers)
    /\ LET outs == [i \in DOMAIN dm.encrypted_numbers |->
                       IntValue(decrypt(dm.encrypted_numbers[i], dm.d, dm.n))]
       IN  dm' = [dm EXCEPT !.pc = "returned", !.decrypted_numbers = outs,
                            !.decrypted_text = numbers_to_text(outs)]
    /\ UNCHANGED <<mi, rsa, td, pr, pf, sh, ky, lw, sx, hv, cx, qk, vz>>

DmNext == DmGenerateKeys \/ DmNumber \/ DmCharacter \/ DmDecryptText

SpecRsaDemo == DmInit /\ [][DmNext]_vars

\* C19: in demo_rsa_encryption, whatever key pair generate_rsa_keys(10)
\* returns, no error is raised (encrypt(42) accepts its message and the
\* assertion decrypt(encrypt(42)) == 42 passes), no character of "HI" is
\* skipped, and the decrypted text is "HI".
C19_DemoRoundTrip ==
    /\ dm.err = "none" /\ dm.pc # "crashed"
    /\ dm.skipped = <<>>
    /\ dm.pc \in {"text", "returned"} => dm.decrypted = Int2(original_message)
    /\ dm.pc = "returned" =>
          /\ dm.decrypted_numbers = <<72, 73>>
          /\ dm.decrypted_text = text_message

\* The demonstration has run to its end with the largest primes of ten bits.
C19_Witness ==
    /\ dm.pc = "returned" /\ dm.p = 1021 /\ dm.q = 1019
    /\ dm.e = Int2(FixedE)
    /\ dm.encrypted # Int2(original_message)
    /\ Len(dm.encrypted_numbers) = 2
    /\ dm.decrypted_text = <<"H", "I">>

(***************************************************************************)
(* generate_rsa_keys, lines 73-76, with the sampling loops step by step:   *)
(* one action per round of generate_prime's while True loop and one per    *)
(* test of while q == p.  rsa holds the call's bits, the candidate n of    *)
(* the running generate_prime call, and p and q.                           *)
(***************************************************************************)
MaxSampleBits == 5

SampleValues == 1..(2^MaxSampleBits - 1)

GpInit ==
    /\ rsa \in [pc : {"p"}, bits : 1..MaxSampleBits, n : {0}, p : {0}, q : {0},
                rounds : {0}]
    /\ mi = Idle /\ td = Idle /\ pr = Idle /\ pf = Idle /\ sh = Idle /\ ky = Idle
    /\ lw = Idle /\ sx = Idle /\ hv = Idle /\ cx = Idle /\ qk = Idle /\ vz = Idle /\ dm = Idle

\* lines 37-43: one round of generate_prime's loop in which random.randint
\* returns v; the call returns when the candidate is prime.  rounds counts
\* the rounds of the running call up to 2.
GpRound(v) ==
    /\ rsa.pc \in {"p", "q"}
    /\ 2^(rsa.bits - 1) <= v /\ v <= 2^rsa.bits - 1
    /\ LET n == odd_candidate(v)
       IN  IF is_prime(n)
           THEN IF rsa.pc = "p"
                THEN rsa' = [rsa EXCEPT !.pc = "q", !.p = n, !.n = 0, !.rounds = 0]
                ELSE rsa' = [rsa EXCEPT !.pc = "test", !.q = n, !.n = 0, !.rounds = 0]
           ELSE rsa' = [rsa EXCEPT !.n = n, !.rounds = IF @ < 2 THEN @ + 1 ELSE @]
    /\ UNCHANGED <<mi, td, pr, pf, sh, ky, lw, sx, hv, cx, qk, vz, dm>>

\* line 75: while q == p
GpTest ==
    /\ rsa.pc = "test"
    /\ rsa' = [rsa EXCEPT !.pc = IF rsa.q = rsa.p THEN "q" ELSE "primes"]
    /\ UNCHANGED <<mi, td, pr, pf, sh, ky, lw, sx, hv, cx, qk, vz, dm>>

GpNext == GpTest \/ \E v \in SampleValues : GpRound(v)

\* a round in which the candidate is the least, or the greatest, prime that
\* generate_prime(bits) can return
GpRoundLeast ==
    \E v \in SampleValues :
        /\ odd_candidate(v) \in generate_prime_any(rsa.bits)
        /\ \A c \in generate_prime_any(rsa.bits) : odd_candidate(v) <= c
        /\ GpRound(v)

GpRoundGreatest ==
    \E v \in SampleValues :
        /\ odd_candidate(v) \in generate_prime_any(rsa.bits)
        /\ \A c \in generate_prime_any(rsa.bits) : odd_candidate(v) >= c
        /\ GpRound(v)

\* Fair random sampling: a value that is drawn from again and again is
\* drawn eventually.  Of this the specification states what the least and
\* the greatest prime candidate need; the program keeps running.
SpecPrimeSampling ==
    /\ GpInit /\ [][GpNext]_vars
    /\ WF_vars(GpTest)
    /\ SF_vars(GpRoundLeast) /\ SF_vars(GpRoundGreatest)

\* C23 (as stated): for every bits >= 2 the sampling of generate_rsa_keys
\* ends, with p and q prime, in [2^(bits-1), 2^bits - 1] and different.
C23_SamplingEnds ==
    /\ [](rsa.pc = "primes" =>
            /\ is_prime(rsa.p) /\ is_prime(rsa.q) /\ rsa.p # rsa.q
            /\ {rsa.p, rsa.q} \subseteq 2^(rsa.bits - 1) .. (2^rsa.bits - 1))
    /\ (rsa.bits >= 2) => <>(rsa.pc = "primes")

\* What the code does: the primes returned are prime, in range and
\* different, and the sampling ends for every bits >= 3.  For bits = 2 the
\* only candidate is 3, so q == p holds after every draw; for bits = 1 the
\* only candidate is 1, which is not prime.
C23_FromThreeBits ==
    /\ [](rsa.pc = "primes" =>
            /\ is_prime(rsa.p) /\ is_prime(rsa.q) /\ rsa.p # rsa.q
            /\ {rsa.p, rsa.q} \subseteq 2^(rsa.bits - 1) .. (2^rsa.bits - 1))
    /\ (rsa.bits >= 3) => <>(rsa.pc = "primes")
    /\ (rsa.bits = 2) => [](rsa.pc # "primes" /\ rsa.p \in {0, 3} /\ rsa.q \in {0, 3})
    /\ (rsa.bits = 1) => [](rsa.pc = "p" /\ rsa.n \in {0, 1})

\* generate_rsa_keys(2) is drawing q again after q == p == 3
C23_Collision == rsa.bits = 2 /\ rsa.pc = "q" /\ rsa.p = 3 /\ rsa.q = 3

====
